---------------------------- MODULE Spec2Model ----------------------------
(***************************************************************************)
(* A model of latexexpr.py (LaTeX Expression 0.2): the Variable /          *)
(* Operation / Expression node classes, their three renderings             *)
(* (strSymbolic, strSubstituted, strResult), numeric evaluation and the    *)
(* constructors.                                                           *)
(*                                                                         *)
(* Objects live in a heap `nodes` (a sequence; an object's identity is     *)
(* its index), children are held by reference, exactly as Python holds     *)
(* them.                                                                   *)
(*                                                                         *)
(* Floats are modelled as fixed-point numbers counted in thousandths       *)
(* (3.25 is 3250).  Results of the transcendental functions of the math    *)
(* library are kept as uninterpreted terms (field fn).  A call either      *)
(* returns or raises: every method is an operator that yields an outcome   *)
(* record whose field err names the exception raised, if any.              *)
(*                                                                         *)
(* Three specifications share the heap: Spec (any sequence of              *)
(* constructions, assignments and toVariable calls), SpecVar (one Variable *)
(* of any value, pattern and exponent and its strResult) and SpecTree      *)
(* (Operations and Expressions built over three given Variables).          *)
(***************************************************************************)
EXTENDS Integers, Sequences, FiniteSets, TLC

VARIABLES nodes, last

vars == <<nodes, last>>

---------------------------------------------------------------------------
(* Bounds of the model *)

MaxNodes == 3

MaxArgs == 2

---------------------------------------------------------------------------
(* Python values *)

\* one unit of a float is a thousandth
Milli == 10 * 10 * 10

\* a float: exact (fn = "", v counts thousandths, or units sc decimal places
\* finer than thousandths) or an uninterpreted term
Num(x) == [fn |-> "", v |-> x, sc |-> 0]

\* an attribute that is None or a float: None is the empty tuple, the float n
\* is the tuple <<n>>
None == <<>>

Float(x) == <<Num(x)>>

\* None if v is None else float(v), as Variable.__init__ and _set_value store it
ToFloat(v) == IF v = None THEN None ELSE <<v[1]>>

Term(s) == [fn |-> s, v |-> 0, sc |-> 0]

IsExact(n) == n.fn = ""

\* an exception: its class and the pieces of its message
NoErr == [exc |-> "", msg |-> <<>>]

Err(e, m) == [exc |-> e, msg |-> m]

\* outcome of a call that yields a number
RetNum(n) == [err |-> NoErr, num |-> n]

RaiseNum(e) == [err |-> e, num |-> Num(0)]

\* outcome of a call that yields a string
RetStr(s) == [err |-> NoErr, s |-> s]

RaiseStr(e) == [err |-> e, s |-> ""]

Raised(o) == o.err # NoErr

---------------------------------------------------------------------------
(* Decimal text *)

Digit(d) == <<"0", "1", "2", "3", "4", "5", "6", "7", "8", "9">>[d + 1]

RECURSIVE NatStr(_)
NatStr(n) == IF n < 10 THEN Digit(n) ELSE NatStr(n \div 10) \o Digit(n % 10)

\* '%d' % i for an int i
IntStr(i) == IF i < 0 THEN "-" \o NatStr(0 - i) ELSE NatStr(i)

Abs(x) == IF x < 0 THEN 0 - x ELSE x

RECURSIVE Pow10(_)
Pow10(k) == IF k = 0 THEN 1 ELSE 10 * Pow10(k - 1)

\* n / d for n >= 0, d > 0, rounded to the nearest integer, ties to even
RoundNat(n, d) ==
    LET q == n \div d
        r == n % d
    IN  IF 2 * r > d \/ (2 * r = d /\ q % 2 = 1) THEN q + 1 ELSE q

\* n / d rounded to the nearest integer, for d > 0 and any sign of n
RoundDiv(n, d) == IF n < 0 THEN 0 - RoundNat(0 - n, d) ELSE RoundNat(n, d)

\* the k low decimal digits of n, zero padded
RECURSIVE Padded(_, _)
Padded(n, k) == IF k = 0 THEN "" ELSE Padded(n \div 10, k - 1) \o Digit(n % 10)

\* '%.<k>f' % x, for x counted in units of 10^-p (p >= k): the sign is the
\* float's own sign, also when it rounds to zero
FixedStr(x, p, k) ==
    LET m == RoundNat(Abs(x), Pow10(p - k))
        body == NatStr(m \div Pow10(k)) \o (IF k = 0 THEN "" ELSE "." \o Padded(m, k))
    IN  IF x < 0 THEN "-" \o body ELSE body

\* '%d' % x for a float x: the fraction is cut off (towards zero)
TruncStr(x, p) ==
    LET m == Abs(x) \div Pow10(p)
    IN  IF x < 0 /\ m > 0 THEN "-" \o NatStr(m) ELSE NatStr(m)

\* format % x, the printf-style pattern applied to one number
Fmt(format, n) ==
    IF ~IsExact(n) THEN "<" \o format \o ":" \o n.fn \o ">"
    ELSE CASE format = "%d" -> TruncStr(n.v, 3 + n.sc)
           [] format = "%.1f" -> FixedStr(n.v, 3 + n.sc, 1)
           [] format = "%.2f" -> FixedStr(n.v, 3 + n.sc, 2)
           [] format = "%.3f" -> FixedStr(n.v, 3 + n.sc, 3)

\* unitFormat % unit
UnitFmt(unitFormat, unit) ==
    CASE unitFormat = "\\mathrm{%s}" -> "\\mathrm{" \o unit \o "}"
      [] unitFormat = "%s" -> unit

---------------------------------------------------------------------------
(* Float arithmetic and the math library *)

\* the text of a number inside an uninterpreted term
NumStr(n) == IF IsExact(n) THEN IntStr(n.v) ELSE n.fn

Term1(f, x) == Term(f \o "(" \o NumStr(x) \o ")")

Term2(f, x, y) == Term(f \o "(" \o NumStr(x) \o "," \o NumStr(y) \o ")")

Both(x, y) == IsExact(x) /\ IsExact(y)

IsZero(n) == IsExact(n) /\ n.v = 0

IsNeg(n) == IsExact(n) /\ n.v < 0

IsWhole(n) == IsExact(n) /\ n.v % Milli = 0

ZeroDivisionError == Err("ZeroDivisionError", <<"float division by zero">>)

MathDomainError == Err("ValueError", <<"math domain error">>)

IndexError == Err("IndexError", <<"list index out of range">>)

EmptySequenceError == Err("ValueError", <<"arg is an empty sequence">>)

NameErrorLog == Err("NameError", <<"global name 'log' is not defined">>)

\* x + y
FAdd(x, y) == IF Both(x, y) THEN Num(x.v + y.v) ELSE Term2("add", x, y)

\* x - y
FSub(x, y) == IF Both(x, y) THEN Num(x.v - y.v) ELSE Term2("sub", x, y)

\* x * y
FMul(x, y) == IF Both(x, y) THEN Num(RoundDiv(x.v * y.v, Milli)) ELSE Term2("mul", x, y)

\* x / y on floats: raises on a zero divisor
FDiv(x, y) ==
    IF IsZero(y) THEN RaiseNum(ZeroDivisionError)
    ELSE IF Both(x, y)
         THEN RetNum(Num(IF y.v < 0 THEN RoundDiv(0 - x.v * Milli, 0 - y.v)
                                     ELSE RoundDiv(x.v * Milli, y.v)))
         ELSE RetNum(Term2("div", x, y))

\* -x
FNeg(x) == IF IsExact(x) THEN Num(0 - x.v) ELSE Term1("neg", x)

\* abs(x)
FAbs(x) == IF IsExact(x) THEN Num(Abs(x.v)) ELSE Term1("abs", x)

\* the two-argument max and min the builtins fold over their argument
FMax(x, y) == IF Both(x, y) THEN (IF y.v > x.v THEN y ELSE x) ELSE Term2("max", x, y)

FMin(x, y) == IF Both(x, y) THEN (IF y.v < x.v THEN y ELSE x) ELSE Term2("min", x, y)

\* math.pow(x, y): a domain error for 0 to a negative power and for a negative
\* base with a fractional exponent; computed here for the exponents 0, 1, 2
MathPow(x, y) ==
    IF IsZero(x) /\ IsNeg(y) THEN RaiseNum(MathDomainError)
    ELSE IF IsNeg(x) /\ IsExact(y) /\ ~IsWhole(y) THEN RaiseNum(MathDomainError)
    ELSE IF Both(x, y) /\ y.v = 0 THEN RetNum(Num(Milli))
    ELSE IF Both(x, y) /\ y.v = Milli THEN RetNum(x)
    ELSE IF Both(x, y) /\ y.v = 2 * Milli THEN RetNum(FMul(x, x))
    ELSE RetNum(Term2("pow", x, y))

\* math.pow(b, 1./a), the evaluation of the root kind
MathRoot(a, b) ==
    LET inv == FDiv(Num(Milli), a)
    IN  IF Raised(inv) THEN inv ELSE MathPow(b, inv.num)

\* math.sqrt(x)
MathSqrt(x) == IF IsNeg(x) THEN RaiseNum(MathDomainError) ELSE RetNum(Term1("sqrt", x))

\* math.log(x)
MathLog(x) ==
    IF IsExact(x) /\ x.v <= 0 THEN RaiseNum(MathDomainError) ELSE RetNum(Term1("log", x))

\* math.log(x)/math.log(10)
MathLog10(x) ==
    IF IsExact(x) /\ x.v <= 0 THEN RaiseNum(MathDomainError)
    ELSE RetNum(Term2("div", Term1("log", x), Term1("log", Num(10 * Milli))))

\* a shift that multiplies by 10^e where the code multiplies by 10^-e
Shift10Up(n, e) ==
    IF ~IsExact(n) THEN Term2("shift", n, Num(e))
    ELSE IF e >= 0 THEN Num(n.v * Pow10(e))
    ELSE [fn |-> "", v |-> n.v, sc |-> 0 - e]

\* value * math.pow(10, -e)
Shift10(n, e) ==
    IF ~IsExact(n) THEN Term2("shift", n, Num(e))
    ELSE IF e <= 0 THEN Num(n.v * Pow10(0 - e))
    ELSE [fn |-> "", v |-> n.v, sc |-> e]

---------------------------------------------------------------------------
(* Operation kinds *)

_supportedOperations1 ==
    {"", "neg", "pos", "abs", "sqr", "sqrt", "sin", "cos", "tan", "sinh", "cosh",
     "tanh", "exp", "ln", "log10", "()", "[]", "{}", "<>"}

_supportedOperations2 == {"-", "/", "//", "pow", "root", "log"}

_supportedOperationsN == {"+", "*", "max", "min"}

_supportedOperations ==
    {"", "+", "-", "*", "/", "//", "neg", "pos", "abs", "max", "min", "pow", "sqr",
     "root", "sqrt", "sin", "cos", "tan", "sinh", "cosh", "tanh", "exp", "log", "ln",
     "log10", "()", "[]", "{}", "<>"}

\* the text of str(_supportedOperations) inside the error message
SupportedText == "('', '+', '-', '*', '/', '//', 'neg', 'pos', 'abs', ...)"

\* 'operation %s not in supported operations %s' % (type, str(_supportedOperations)),
\* kept as its pieces
UnsupportedOperation(type) ==
    Err("LaTeXExpressionError",
        <<"operation ", type, " not in supported operations ", SupportedText>>)

SymbolicResultError == Err("LaTeXExpressionError", <<"Unknown result of symbolic variable">>)

---------------------------------------------------------------------------
(* String building with exceptions: the operands are evaluated in the      *)
(* order given and the first one that raises ends the call                 *)

RECURSIVE FirstRaised(_)
FirstRaised(outs) ==
    IF outs = <<>> THEN NoErr
    ELSE IF Raised(Head(outs)) THEN Head(outs).err
    ELSE FirstRaised(Tail(outs))

RECURSIVE JoinText(_, _)
JoinText(sep, outs) ==
    IF outs = <<>> THEN ""
    ELSE IF Len(outs) = 1 THEN outs[1].s
    ELSE outs[1].s \o sep \o JoinText(sep, Tail(outs))

\* sep.join(v) for a generator v of calls
Join(sep, outs) ==
    IF FirstRaised(outs) # NoErr THEN RaiseStr(FirstRaised(outs))
    ELSE RetStr(JoinText(sep, outs))

\* pre + o + post
Wrap1(pre, o, post) == IF Raised(o) THEN o ELSE RetStr(pre \o o.s \o post)

\* pre + o1 + mid + o2 + post, o1 evaluated first
Wrap2(pre, o1, mid, o2, post) ==
    IF Raised(o1) THEN o1
    ELSE IF Raised(o2) THEN o2
    ELSE RetStr(pre \o o1.s \o mid \o o2.s \o post)

---------------------------------------------------------------------------
(* A method call on a child held by reference: Call(H, m, id) is           *)
(* nodes[id].m(), where H is the table of the calls on the objects of the  *)
(* heap (Heap, defined after the classes).  float(child) is                *)
(* Call(H, "result", id): __float__ returns self.result() in all classes.  *)

Call(H, m, id) == H[<<m, id>>]

---------------------------------------------------------------------------
(* class Variable *)

DefaultFormat == "%.2f"

DefaultUnitFormat == "\\mathrm{%s}"

\* Variable.__init__
Variable(name, value, unit, format, unitFormat, exponent) ==
    [cls |-> "Variable", name |-> name, value |-> ToFloat(value), unit |-> unit,
     format |-> format, unitFormat |-> unitFormat, exponent |-> exponent]

\* a setter that keeps a value once one is held
Variable_set_valueOnce(self, v) ==
    IF self.value = None THEN [self EXCEPT !.value = ToFloat(v)] ELSE self

\* Variable._set_value, the setter of the property value
Variable_set_value(self, v) == [self EXCEPT !.value = ToFloat(v)]

Variable_isSymbolic(self) == self.value = None

Variable_strSymbolic(self) == RetStr("{" \o self.name \o "}")

\* a strResult that looks for the minus sign in the formatted text
Variable_strResultTextSign(self, format, exponent) ==
    IF self.value = None THEN RetStr("{" \o self.name \o "}")
    ELSE LET f == IF format # "" THEN format ELSE self.format
             e == IF exponent # 0 THEN exponent ELSE self.exponent
             res == self.value[1]
             val == Shift10(res, e)
             pow == "\\cdot 10^{" \o IntStr(e) \o "}"
             minus == Fmt(f, res) # Fmt(f, [res EXCEPT !.v = Abs(res.v)])
         IN  IF e = 0
             THEN IF minus
                  THEN RetStr("\\left( " \o Fmt(f, res) \o " \\right)")
                  ELSE RetStr(Fmt(f, res))
             ELSE IF minus
                  THEN RetStr("\\left( " \o Fmt(f, val) \o " " \o pow \o " \\right)")
                  ELSE RetStr("{ " \o Fmt(f, val) \o " " \o pow \o " }")

Variable_strResult(self, format, exponent) ==
    IF Variable_isSymbolic(self) THEN Variable_strSymbolic(self)
    ELSE LET f == IF format # "" THEN format ELSE self.format
             e == IF exponent # 0 THEN exponent ELSE self.exponent
             res == self.value[1]
             val == Shift10(res, e)
             pow == "\\cdot 10^{" \o IntStr(e) \o "}"
         IN  IF e = 0
             THEN IF IsNeg(res)
                  THEN RetStr("\\left( " \o Fmt(f, res) \o " \\right)")
                  ELSE RetStr(Fmt(f, res))
             ELSE IF IsNeg(res)
                  THEN RetStr("\\left( " \o Fmt(f, val) \o " " \o pow \o " \\right)")
                  ELSE RetStr("{ " \o Fmt(f, val) \o " " \o pow \o " }")

Variable_strSubstituted(self) == Variable_strResult(self, "", 0)

Variable_strResultWithUnit(self) ==
    Wrap1("", Variable_strResult(self, "", 0), " \\ " \o UnitFmt(self.unitFormat, self.unit))

\* a result that takes an unset value for 0.0
Variable_resultZero(self) ==
    IF self.value = None THEN RetNum(Num(0)) ELSE RetNum(self.value[1])

Variable_result(self) ==
    IF Variable_isSymbolic(self) THEN RaiseNum(SymbolicResultError)
    ELSE RetNum(self.value[1])

\* a __str__ that prints the bare name whatever the value
Variable__str__Bare(self) == RetStr(self.name)

Variable__str__(self) ==
    IF Variable_isSymbolic(self) THEN RetStr(self.name)
    ELSE Wrap1(self.name \o " = ", Variable_strResultWithUnit(self), "")

\* the truth value of the bound method expr.isSymbolic, which fromExpression
\* tests without calling it
BoundMethodIsTrue == TRUE

\* Variable.fromExpression: an outcome carrying the changed receiver
\* (exprFloat is the outcome float(expr) has when it is evaluated)
Variable_fromExpression(self, expr, exprFloat) ==
    LET r == IF BoundMethodIsTrue THEN RetNum(Num(0)) ELSE exprFloat
        v == IF BoundMethodIsTrue THEN None ELSE <<r.num>>
    IN  [err |-> r.err,
         obj |-> [self EXCEPT !.name = expr.name, !.value = v, !.unit = expr.unit,
                              !.format = expr.format, !.unitFormat = expr.unitFormat,
                              !.exponent = expr.exponent]]

---------------------------------------------------------------------------
(* class Operation *)

\* the values a caller can pass as a constructor argument: a node (by
\* reference), a plain number, or something else
PyObj(id) == [py |-> "obj", v |-> id]

PyFloat(x) == [py |-> "float", v |-> x]

PyInt(i) == [py |-> "int", v |-> i * Milli]

PyStr == [py |-> "str", v |-> 0]

\* Operation.__checkArgs: the outcome carries the argument list (references;
\* a wrapped number is referred to by the place it gets after `base`) and the
\* Variables created for the plain numbers
RECURSIVE Operation__checkArgs(_, _)
Operation__checkArgs(args, base) ==
    IF args = <<>> THEN [err |-> NoErr, ret |-> <<>>, made |-> <<>>]
    ELSE LET a == Head(args)
         IN  IF a.py = "obj"
             THEN LET rest == Operation__checkArgs(Tail(args), base)
                  IN  [rest EXCEPT !.ret = <<a.v>> \o rest.ret]
             ELSE IF a.py \in {"float", "int"}
             THEN LET rest == Operation__checkArgs(Tail(args), base + 1)
                      w == Variable(TruncStr(a.v, 3), Float(a.v), "", "%d", DefaultUnitFormat, 0)
                  IN  [rest EXCEPT !.ret = <<base + 1>> \o rest.ret,
                                   !.made = <<w>> \o rest.made]
             ELSE [err |-> Err("TypeError",
                               <<"wrong argunemt type (", a.py, ") in Operation constructor">>),
                   ret |-> <<>>, made |-> <<>>]

\* a constructor that looks at its arguments before it looks at the kind
OperationArgsFirst(type, args, base) ==
    LET c == Operation__checkArgs(args, base)
    IN  IF c.err # NoErr THEN [err |-> c.err, obj |-> <<>>, made |-> <<>>]
        ELSE IF type \notin _supportedOperations
        THEN [err |-> UnsupportedOperation(type), obj |-> <<>>, made |-> <<>>]
        ELSE [err |-> NoErr,
              obj |-> <<[cls |-> "Operation", type |-> type, args |-> c.ret,
                         format |-> DefaultFormat, exponent |-> 0]>>,
              made |-> c.made]

\* Operation.__init__: the outcome carries the new object and the Variables
\* it wrapped its plain-number arguments in
Operation(type, args, base) ==
    IF type \notin _supportedOperations
    THEN [err |-> UnsupportedOperation(type), obj |-> <<>>, made |-> <<>>]
    ELSE LET c == Operation__checkArgs(args, base)
         IN  IF c.err # NoErr THEN [err |-> c.err, obj |-> <<>>, made |-> <<>>]
             ELSE [err |-> NoErr,
                   obj |-> <<[cls |-> "Operation", type |-> type, args |-> c.ret,
                              format |-> DefaultFormat, exponent |-> 0]>>,
                   made |-> c.made]

\* getattr(arg, what)() for a child held by reference
ChildStr(H, what, id) == Call(H, what, id)

\* the generator (getattr(arg, what)() for arg in a), consumed in order
ChildStrs(H, what, a) == [i \in DOMAIN a |-> ChildStr(H, what, a[i])]

\* Operation.__str, the table of LaTeX forms shared by strSymbolic and strSubstituted
Operation__str(H, self, what) ==
    LET a == self.args
        t == self.type
    IN  IF t \in _supportedOperationsN
        THEN LET v == ChildStrs(H, what, a)
             IN  CASE t = "+" -> Join(" + ", v)
                   [] t = "*" -> Join(" \\cdot ", v)
                   [] t = "max" -> Wrap1("\\max{\\left( ", Join(", ", v), " \\right)}")
                   [] t = "min" -> Wrap1("\\min{\\left( ", Join(", ", v), " \\right)}")
        ELSE IF t \in _supportedOperations2
        THEN IF Len(a) < 1 THEN RaiseStr(IndexError)
             ELSE LET v0 == ChildStr(H, what, a[1])
                  IN  IF Raised(v0) THEN v0
                      ELSE IF Len(a) < 2 THEN RaiseStr(IndexError)
                      ELSE LET v1 == ChildStr(H, what, a[2])
                           IN  CASE t = "-" -> Wrap2("", v0, " - ", v1, "")
                                 [] t = "/" -> Wrap2("\\frac{ ", v0, " }{ ", v1, " }")
                                 [] t = "//" -> Wrap2("", v0, " / ", v1, "")
                                 [] t = "pow" -> Wrap2("{ ", v0, " }^{ ", v1, " }")
                                 [] t = "root" -> Wrap2("\\sqrt[ ", v0, " ]{ ", v1, " }")
                                 [] t = "log" -> Wrap2("\\log_{ ", v0, " }{ ", v1, " }")
        ELSE IF t \in _supportedOperations1
        THEN IF Len(a) < 1 THEN RaiseStr(IndexError)
             ELSE LET v == ChildStr(H, what, a[1])
                  IN  CASE t \in {"", "pos"} -> v
                        [] t = "neg" -> Wrap1("\\left( - ", v, " \\right)")
                        [] t = "abs" -> Wrap1("\\left| ", v, " \\right|")
                        [] t = "sqr" -> Wrap1("", v, "^2")
                        [] t = "sqrt" -> Wrap1("\\sqrt{ ", v, " }")
                        [] t \in {"sin", "cos", "tan", "sinh", "cosh", "tanh", "ln"} ->
                               Wrap1("\\" \o t \o "{ ", v, " }")
                        [] t = "exp" -> Wrap1("\\mathrm{e}^{ ", v, " }")
                        [] t = "log10" -> Wrap1("\\log_{10}{ ", v, " }")
                        [] t = "()" -> Wrap1("\\left( ", v, " \\right)")
                        [] t = "[]" -> Wrap1("\\left[ ", v, " \\right]")
                        [] t = "{}" -> Wrap1("\\left\\{ ", v, " \\right\\}")
                        [] t = "<>" -> Wrap1("\\left\\langle ", v, " \\right\\rangle")
        ELSE RaiseStr(UnsupportedOperation(t))

Operation_strSymbolic(H, self) == Operation__str(H, self, "strSymbolic")

Operation_strSubstituted(H, self) == Operation__str(H, self, "strSubstituted")

\* an isSymbolic that asks the first child only
Operation_isSymbolicFirst(H, self) ==
    self.args # <<>> /\ Call(H, "isSymbolic", self.args[1])

\* any(arg.isSymbolic() for arg in self.args)
Operation_isSymbolic(H, self) == \E i \in DOMAIN self.args : Call(H, "isSymbolic", self.args[i])

\* the generator (float(arg) for arg in a), consumed in order
Floats(H, a) == [i \in DOMAIN a |-> Call(H, "result", a[i])]

\* a fold that stops after the second value
FoldTwo(t, acc, vals) ==
    LET step(x, y) == CASE t = "+" -> FAdd(x, y.num)
                        [] t = "*" -> FMul(x, y.num)
                        [] t = "max" -> FMax(x, y.num)
                        [] t = "min" -> FMin(x, y.num)
    IN  IF vals = <<>> THEN acc
        ELSE IF Len(vals) = 1 THEN step(acc, vals[1])
        ELSE step(step(acc, vals[1]), vals[2])

\* the left fold that sum, reduce, max and min make over the values
RECURSIVE Fold(_, _, _)
Fold(t, acc, vals) ==
    IF vals = <<>> THEN acc
    ELSE Fold(t,
              CASE t = "+" -> FAdd(acc, Head(vals).num)
                [] t = "*" -> FMul(acc, Head(vals).num)
                [] t = "max" -> FMax(acc, Head(vals).num)
                [] t = "min" -> FMin(acc, Head(vals).num),
              Tail(vals))

\* Operation.result, the table of evaluations
Operation_result(H, self) ==
    LET a == self.args
        t == self.type
    IN  IF t \in _supportedOperationsN
        THEN LET v == Floats(H, a)
             IN  IF FirstRaised(v) # NoErr THEN RaiseNum(FirstRaised(v))
                 ELSE CASE t = "+" -> RetNum(Fold(t, Num(0), v))
                        [] t = "*" -> RetNum(Fold(t, Num(Milli), v))
                        [] t \in {"max", "min"} ->
                               IF v = <<>> THEN RaiseNum(EmptySequenceError)
                               ELSE RetNum(Fold(t, v[1].num, Tail(v)))
        ELSE IF t \in _supportedOperations2
        THEN IF Len(a) < 1 THEN RaiseNum(IndexError)
             ELSE LET v0 == Call(H, "result", a[1])
                  IN  IF Raised(v0) THEN v0
                      ELSE IF Len(a) < 2 THEN RaiseNum(IndexError)
                      ELSE LET v1 == Call(H, "result", a[2])
                           IN  IF Raised(v1) THEN v1
                               ELSE CASE t = "-" -> RetNum(FSub(v0.num, v1.num))
                                      [] t \in {"/", "//"} -> FDiv(v0.num, v1.num)
                                      [] t = "pow" -> MathPow(v0.num, v1.num)
                                      [] t = "root" -> MathRoot(v0.num, v1.num)
                                      [] t = "log" -> RaiseNum(NameErrorLog)
        ELSE IF t \in _supportedOperations1
        THEN IF Len(a) < 1 THEN RaiseNum(IndexError)
             ELSE LET v == Call(H, "result", a[1])
                  IN  IF Raised(v) THEN v
                      ELSE CASE t \in {"", "pos", "()", "[]", "{}", "<>"} -> v
                             [] t = "neg" -> RetNum(FNeg(v.num))
                             [] t = "abs" -> RetNum(FAbs(v.num))
                             [] t = "sqr" -> MathPow(v.num, Num(2 * Milli))
                             [] t = "sqrt" -> MathSqrt(v.num)
                             [] t \in {"sin", "cos", "tan", "sinh", "cosh", "tanh", "exp"} ->
                                    RetNum(Term1(t, v.num))
                             [] t = "ln" -> MathLog(v.num)
                             [] t = "log10" -> MathLog10(v.num)
        ELSE RaiseNum(UnsupportedOperation(t))

\* Operation.strResult
Operation_strResult(H, self, format, exponent) ==
    IF Operation_isSymbolic(H, self) THEN Operation_strSymbolic(H, self)
    ELSE LET r == Operation_result(H, self)
             f == IF format # "" THEN format ELSE self.format
             e == IF exponent # 0 THEN exponent ELSE self.exponent
             val == Shift10(r.num, e)
             pow == "\\cdot 10^{" \o IntStr(e) \o "}"
         IN  IF Raised(r) THEN RaiseStr(r.err)
             ELSE IF e = 0
             THEN IF IsNeg(r.num)
                  THEN RetStr("\\left( " \o Fmt(f, r.num) \o " \\right)")
                  ELSE RetStr(Fmt(f, r.num))
             ELSE IF IsNeg(r.num)
                  THEN RetStr("\\left( " \o Fmt(f, val) \o " " \o pow \o " \\right)")
                  ELSE RetStr("{ " \o Fmt(f, val) \o " " \o pow \o " }")

\* '%s = %s'%(self.strSymbolic(),self.strSubstituted())
Operation__str__(H, self) ==
    Wrap2("", Operation_strSymbolic(H, self), " = ", Operation_strSubstituted(H, self), "")

\* the keyword arguments of the Variable constructor left at their defaults
NoKw == [unit |-> "", format |-> DefaultFormat, unitFormat |-> DefaultUnitFormat,
         exponent |-> 0]

\* Operation.toVariable: Variable(newName,float(self),**kw)
Operation_toVariable(H, self, newName, kw) ==
    LET r == Operation_result(H, self)
    IN  IF Raised(r) THEN [err |-> r.err, obj |-> <<>>]
        ELSE [err |-> NoErr,
              obj |-> <<Variable(newName, <<r.num>>, kw.unit, kw.format,
                                 kw.unitFormat, kw.exponent)>>]

---------------------------------------------------------------------------
(* The predefined builders: each passes its arguments on to the           *)
(* constructor; the table holds the kind it passes with them               *)

BuilderKind ==
    [SUM |-> "+", SUB |-> "-", MUL |-> "*", DIV |-> "/", DIV2 |-> "//", NEG |-> "neg",
     POS |-> "pos", ABS |-> "abs", MAX |-> "max", MIN |-> "min", POW |-> "pow",
     SQR |-> "sqr", ROOT |-> "root", SQRT |-> "sqrt", SIN |-> "sin", COS |-> "cos",
     TAN |-> "tan", SINH |-> "sinh", COSH |-> "cosh", TANH |-> "tanh", EXP |-> "exp",
     LOG |-> "exp", LN |-> "ln", LOG10 |-> "log10", RBRACKETS |-> "()",
     SBRACKETS |-> "[]", CBRACKETS |-> "{}", ABRACKETS |-> "<>"]

Builder(b, args, base) == Operation(BuilderKind[b], args, base)

---------------------------------------------------------------------------
(* class Expression *)

\* Expression.__init__
Expression(name, operation, unit, format, unitFormat, exponent) ==
    [cls |-> "Expression", name |-> name, operation |-> operation, unit |-> unit,
     format |-> format, unitFormat |-> unitFormat, exponent |-> exponent]

Expression_isSymbolic(H, self) == Call(H, "isSymbolic", self.operation)

Expression_result(H, self) == Call(H, "result", self.operation)

\* a strResult whose exponent argument is used also when it is 0
Expression_strResultZeroExponent(H, self, format, exponent) ==
    IF Expression_isSymbolic(H, self) THEN Call(H, "strSubstituted", self.operation)
    ELSE LET r == Expression_result(H, self)
             f == IF format # "" THEN format ELSE self.format
             val == Shift10(r.num, exponent)
             pow == "\\cdot 10^{" \o IntStr(exponent) \o "}"
         IN  IF Raised(r) THEN RaiseStr(r.err)
             ELSE IF exponent = 0
             THEN IF IsNeg(r.num)
                  THEN RetStr("\\left(" \o Fmt(f, r.num) \o "\\right)")
                  ELSE RetStr(Fmt(f, r.num))
             ELSE IF IsNeg(r.num)
                  THEN RetStr("\\left( " \o Fmt(f, val) \o " " \o pow \o " \\right)")
                  ELSE RetStr("{ " \o Fmt(f, val) \o " " \o pow \o " }")

Expression_strSymbolic(self) == RetStr("{" \o self.name \o "}")

Expression_strResult(H, self, format, exponent) ==
    IF Expression_isSymbolic(H, self) THEN Call(H, "strSubstituted", self.operation)
    ELSE LET r == Expression_result(H, self)
             f == IF format # "" THEN format ELSE self.format
             e == IF exponent # 0 THEN exponent ELSE self.exponent
             val == Shift10(r.num, e)
             pow == "\\cdot 10^{" \o IntStr(e) \o "}"
         IN  IF Raised(r) THEN RaiseStr(r.err)
             ELSE IF e = 0
             THEN IF IsNeg(r.num)
                  THEN RetStr("\\left(" \o Fmt(f, r.num) \o "\\right)")
                  ELSE RetStr(Fmt(f, r.num))
             ELSE IF IsNeg(r.num)
                  THEN RetStr("\\left( " \o Fmt(f, val) \o " " \o pow \o " \\right)")
                  ELSE RetStr("{ " \o Fmt(f, val) \o " " \o pow \o " }")

\* a strSubstituted that gives the name of the Expression
Expression_strSubstitutedName(H, self) == RetStr("{" \o self.name \o "}")

Expression_strSubstituted(H, self) == Expression_strResult(H, self, "", 0)

Expression_strResultWithUnit(H, self) ==
    Wrap1("", Expression_strResult(H, self, "", 0), " \\ " \o UnitFmt(self.unitFormat, self.unit))

\* a __str__ that leaves out the substituted form of the child
Expression__str__NoSubst(H, self) ==
    IF Call(H, "isSymbolic", self.operation)
    THEN Wrap1(self.name \o " = ", Call(H, "strSymbolic", self.operation), "")
    ELSE Wrap2(self.name \o " = ", Call(H, "strSymbolic", self.operation), " = ",
               Expression_strResultWithUnit(H, self), "")

\* a __str__ that prints the result whether there is one or not
Expression__str__NoBranch(H, self) ==
    LET u == Expression_strResultWithUnit(H, self)
    IN  IF Raised(u) THEN u
        ELSE Wrap1(self.name \o " = ", Call(H, "__str__", self.operation), " = " \o u.s)

\* Expression.__str__: the operands of % are evaluated first (strResultWithUnit),
\* then the formatting calls str(self.operation)
Expression__str__(H, self) ==
    IF Expression_isSymbolic(H, self)
    THEN Wrap1(self.name \o " = ", Call(H, "__str__", self.operation), "")
    ELSE LET u == Expression_strResultWithUnit(H, self)
         IN  IF Raised(u) THEN u
             ELSE Wrap1(self.name \o " = ", Call(H, "__str__", self.operation), " = " \o u.s)

\* Expression.toVariable
Expression_toVariable(H, self, newName) ==
    LET ret == Variable_fromExpression(Variable("", Float(0), "", DefaultFormat,
                                                DefaultUnitFormat, 0),
                                       self, Expression_result(H, self))
    IN  IF Raised(ret) THEN [err |-> ret.err, obj |-> <<>>]
        ELSE [err |-> NoErr,
              obj |-> <<IF newName # "" THEN [ret.obj EXCEPT !.name = newName]
                                          ELSE ret.obj>>]

---------------------------------------------------------------------------
(* The methods every node class offers, resolved on the class of the object *)

Methods == {"isSymbolic", "result", "strSymbolic", "strSubstituted", "__str__"}

\* obj.m() for the methods called without arguments
Dispatch(H, m, obj) ==
    CASE m = "isSymbolic" ->
             (CASE obj.cls = "Variable" -> Variable_isSymbolic(obj)
                [] obj.cls = "Operation" -> Operation_isSymbolic(H, obj)
                [] obj.cls = "Expression" -> Expression_isSymbolic(H, obj))
      [] m = "result" ->
             (CASE obj.cls = "Variable" -> Variable_result(obj)
                [] obj.cls = "Operation" -> Operation_result(H, obj)
                [] obj.cls = "Expression" -> Expression_result(H, obj))
      [] m = "strSymbolic" ->
             (CASE obj.cls = "Variable" -> Variable_strSymbolic(obj)
                [] obj.cls = "Operation" -> Operation_strSymbolic(H, obj)
                [] obj.cls = "Expression" -> Expression_strSymbolic(obj))
      [] m = "strSubstituted" ->
             (CASE obj.cls = "Variable" -> Variable_strSubstituted(obj)
                [] obj.cls = "Operation" -> Operation_strSubstituted(H, obj)
                [] obj.cls = "Expression" -> Expression_strSubstituted(H, obj))
      [] m = "__str__" ->
             (CASE obj.cls = "Variable" -> Variable__str__(obj)
                [] obj.cls = "Operation" -> Operation__str__(H, obj)
                [] obj.cls = "Expression" -> Expression__str__(H, obj))

\* the calls on the objects of a heap ns
HeapOf(ns) ==
    LET H[mi \in Methods \X DOMAIN ns] == Dispatch(H, mi[1], ns[mi[2]])
    IN  H

\* the calls on the objects of the heap
Heap == HeapOf(nodes)

isSymbolic(obj) == Dispatch(Heap, "isSymbolic", obj)

result(obj) == Dispatch(Heap, "result", obj)

\* float(obj) calls obj.__float__(), which returns self.result()
float(obj) == result(obj)

strSymbolic(obj) == Dispatch(Heap, "strSymbolic", obj)

strSubstituted(obj) == Dispatch(Heap, "strSubstituted", obj)

str(obj) == Dispatch(Heap, "__str__", obj)

strResult(obj, format, exponent) ==
    CASE obj.cls = "Variable" -> Variable_strResult(obj, format, exponent)
      [] obj.cls = "Operation" -> Operation_strResult(Heap, obj, format, exponent)
      [] obj.cls = "Expression" -> Expression_strResult(Heap, obj, format, exponent)

\* node.toVariable(newName), offered by Operation and Expression
toVariable(obj, newName) ==
    CASE obj.cls = "Operation" -> Operation_toVariable(Heap, obj, newName, NoKw)
      [] obj.cls = "Expression" -> Expression_toVariable(Heap, obj, newName)

---------------------------------------------------------------------------
(* The inputs the callers of the model draw from *)

Names == {"F"}

\* None, 2.34 and 0.0
Values == {None, Float(2340), Float(0)}

\* kinds passed to the constructor; "mod" is not a supported kind
Kinds == {"+", "mod"}

\* the builders called
Builders == {"DIV", "NEG"}

\* constructor arguments: the existing nodes, the plain number 2.5, a str
PyArgs == {PyObj(i) : i \in DOMAIN nodes} \cup {PyFloat(2500), PyStr}

\* argument lists: nodes oldest first (the leaves can be created in any
\* order), then at most one argument that is not a node
ArgLists ==
    {a \in UNION {[1..k -> PyArgs] : k \in 0..MaxArgs} :
        /\ \A k \in DOMAIN a : a[k].py # "obj" => k = Len(a)
        /\ \A j, k \in DOMAIN a : j < k /\ a[k].py = "obj" => a[j].v <= a[k].v}

\* the pattern and exponent arguments of strResult ("" and 0 are the defaults)
Formats == {"%.2f", "%d", "%.1f", "%.3f"}

Exponents == {0 - 2, 0, 2}

\* the values of a single Variable used for the formatting properties:
\* 3.25, 4.34, 2.34, 0.0, -0.004, -0.5, -6.543, 12.0
WideValues ==
    {None, Float(3250), Float(4340), Float(2340), Float(0), Float(0 - 4), Float(0 - 500),
     Float(0 - 6543), Float(12000)}

\* the formats and exponents an Expression is constructed with
ExprFormats == {DefaultFormat, "%.3f"}

ExprExponents == {0, 0 - 2}

---------------------------------------------------------------------------
(* The state machine: `nodes` is the heap, `last` the last call made and   *)
(* how it ended                                                            *)

\* of a constructor call `last` keeps the kind and whether one of the
\* arguments is neither a node nor a plain number; of an assignment the
\* value before and the value assigned; of a strResult call its arguments
\* and the text returned; of a macro export the macro name, the selector,
\* the body handed over and the command; of an operator its operands as
\* written
NoCall ==
    [op |-> "", type |-> "", badArg |-> FALSE, node |-> 0, old |-> None, new |-> None,
     format |-> "", exponent |-> 0, ret |-> 0, out |-> "", err |-> NoErr,
     name |-> "", what |-> "", body |-> "", command |-> "", args |-> <<>>]

BadArg(args) == \E k \in DOMAIN args : args[k].py \notin {"obj", "int", "float"}

Init == nodes = <<>> /\ last = NoCall

\* v = Variable(name, value, 'kN')
NewVariable ==
    \E name \in Names, value \in Values :
        /\ Len(nodes) < MaxNodes
        /\ nodes' = Append(nodes, Variable(name, value, "kN", DefaultFormat,
                                           DefaultUnitFormat, 0))
        /\ last' = [NoCall EXCEPT !.op = "Variable", !.ret = Len(nodes) + 1]

\* v.value = x
SetValue ==
    \E i \in DOMAIN nodes, v \in Values :
        /\ nodes[i].cls = "Variable"
        /\ nodes' = [nodes EXCEPT ![i] = Variable_set_value(@, v)]
        /\ last' = [NoCall EXCEPT !.op = "value", !.node = i,
                                  !.old = nodes[i].value, !.new = v]

\* o = Operation(type, *args): on an exception nothing of the call remains
NewOperation ==
    \E type \in Kinds, args \in ArgLists :
        LET c == Operation(type, args, Len(nodes))
        IN  IF Raised(c)
            THEN /\ nodes' = nodes
                 /\ last' = [NoCall EXCEPT !.op = "Operation", !.type = type,
                                           !.badArg = BadArg(args), !.err = c.err]
            ELSE /\ Len(nodes) + Len(c.made) < MaxNodes
                 /\ nodes' = nodes \o c.made \o c.obj
                 /\ last' = [NoCall EXCEPT !.op = "Operation", !.type = type,
                                           !.ret = Len(nodes) + Len(c.made) + 1]

\* o = DIV(a, b), o = NEG(a): a builder called with any number of arguments
CallBuilder ==
    \E b \in Builders, args \in ArgLists :
        LET c == Builder(b, args, Len(nodes))
        IN  IF Raised(c)
            THEN /\ nodes' = nodes
                 /\ last' = [NoCall EXCEPT !.op = b, !.type = BuilderKind[b],
                                           !.badArg = BadArg(args), !.err = c.err]
            ELSE /\ Len(nodes) + Len(c.made) < MaxNodes
                 /\ nodes' = nodes \o c.made \o c.obj
                 /\ last' = [NoCall EXCEPT !.op = b, !.type = BuilderKind[b],
                                           !.ret = Len(nodes) + Len(c.made) + 1]

\* e = Expression('E_1', child, 'kNm', format, exponent=exponent)
NewExpression ==
    \E child \in DOMAIN nodes, format \in ExprFormats, exponent \in ExprExponents :
        /\ Len(nodes) < MaxNodes
        /\ nodes' = Append(nodes, Expression("E_1", child, "kNm", format,
                                             DefaultUnitFormat, exponent))
        /\ last' = [NoCall EXCEPT !.op = "Expression", !.ret = Len(nodes) + 1]

\* v = node.toVariable(newName), offered by Operation and Expression
ToVariable ==
    \E i \in DOMAIN nodes, newName \in {"", "v_7"} :
        /\ nodes[i].cls \in {"Operation", "Expression"}
        /\ LET c == toVariable(nodes[i], newName)
           IN  IF Raised(c)
               THEN /\ nodes' = nodes
                    /\ last' = [NoCall EXCEPT !.op = "toVariable", !.node = i,
                                              !.name = newName, !.err = c.err]
               ELSE /\ Len(nodes) < MaxNodes
                    /\ nodes' = nodes \o c.obj
                    /\ last' = [NoCall EXCEPT !.op = "toVariable", !.node = i,
                                              !.name = newName,
                                              !.ret = Len(nodes) + 1]

Next ==
    NewVariable \/ SetValue \/ NewOperation \/ CallBuilder \/ NewExpression \/ ToVariable

Spec == Init /\ [][Next]_vars

---------------------------------------------------------------------------
(* A single Variable and its strResult: the formatting of a number for     *)
(* every value, pattern and exponent of the input sets                     *)

\* v = Variable('v_3', value, 'm', format, '%s', exponent), the only object
NewVariableKw ==
    \E value \in WideValues, format \in Formats, exponent \in Exponents :
        /\ nodes = <<>>
        /\ nodes' = <<Variable("v_3", value, "m", format, "%s", exponent)>>
        /\ last' = [NoCall EXCEPT !.op = "Variable", !.ret = 1]

\* s = v.strResult(format, exponent)
StrResult ==
    \E i \in DOMAIN nodes, format \in Formats \cup {""}, exponent \in Exponents :
        LET r == strResult(nodes[i], format, exponent)
        IN  /\ nodes' = nodes
            /\ last' = [NoCall EXCEPT !.op = "strResult", !.node = i, !.format = format,
                                      !.exponent = exponent, !.out = r.s, !.err = r.err]

NextVar == NewVariableKw \/ StrResult

SpecVar == Init /\ [][NextVar]_vars

---------------------------------------------------------------------------
(* Trees over three Variables: z = 0.0, v = 2.34 and u, which has no value *)

MaxTree == 5

Leaves ==
    <<Variable("z", Float(0), "m", DefaultFormat, DefaultUnitFormat, 0),
      Variable("v", Float(2340), "m", DefaultFormat, DefaultUnitFormat, 0),
      Variable("u", None, "m", DefaultFormat, DefaultUnitFormat, 0)>>

TreeKinds == {"+", "/", "neg"}

\* argument lists of nodes, in any order
NodeLists == UNION {[1..k -> {PyObj(i) : i \in DOMAIN nodes}] : k \in 0..MaxArgs}

InitTree == nodes = Leaves /\ last = NoCall

\* o = Operation(type, *args) over the nodes built so far
TreeOperation ==
    \E type \in TreeKinds, args \in NodeLists :
        LET c == Operation(type, args, Len(nodes))
        IN  /\ Len(nodes) < MaxTree
            /\ ~Raised(c)
            /\ nodes' = nodes \o c.obj
            /\ last' = [NoCall EXCEPT !.op = "Operation", !.type = type,
                                      !.ret = Len(nodes) + 1]

\* e = Expression('E_1', child, 'm')
TreeExpression ==
    \E child \in DOMAIN nodes :
        /\ Len(nodes) < MaxTree
        /\ nodes' = Append(nodes, Expression("E_1", child, "m", DefaultFormat,
                                             DefaultUnitFormat, 0))
        /\ last' = [NoCall EXCEPT !.op = "Expression", !.ret = Len(nodes) + 1]

NextTree == TreeOperation \/ TreeExpression

SpecTree == InitTree /\ [][NextTree]_vars

---------------------------------------------------------------------------
(* Notions the properties are stated with *)

\* the children of an object, by reference
Children(obj) ==
    CASE obj.cls = "Variable" -> {}
      [] obj.cls = "Operation" -> {obj.args[k] : k \in DOMAIN obj.args}
      [] obj.cls = "Expression" -> {obj.operation}

\* the nodes reachable from node i through children, i included
RECURSIVE NodesUnder(_)
NodesUnder(i) == {i} \cup UNION {NodesUnder(c) : c \in Children(nodes[i])}

\* the Variables reachable from node i
VarsUnder(i) == {j \in NodesUnder(i) : nodes[j].cls = "Variable"}

\* the Variables among S that hold no value
Unset(S) == {j \in S : nodes[j].cls = "Variable" /\ nodes[j].value = None}

\* the child count a kind asks for: one, two, or two and more
ArityConforms(type, n) ==
    CASE type \in _supportedOperations1 -> n = 1
      [] type \in _supportedOperations2 -> n = 2
      [] type \in _supportedOperationsN -> n >= 2
      [] OTHER -> FALSE

\* the operands the evaluation of an object reads, in the order it reads them
Operands(obj) ==
    CASE obj.cls = "Variable" -> <<>>
      [] obj.cls = "Expression" -> <<obj.operation>>
      [] obj.cls = "Operation" ->
             IF obj.type \in _supportedOperationsN THEN obj.args
             ELSE IF obj.type \in _supportedOperations2
             THEN SubSeq(obj.args, 1, IF Len(obj.args) < 2 THEN Len(obj.args) ELSE 2)
             ELSE SubSeq(obj.args, 1, IF Len(obj.args) < 1 THEN Len(obj.args) ELSE 1)

\* the nodes an evaluation of node i can read, i included
RECURSIVE NodesRead(_)
NodesRead(i) ==
    {i} \cup UNION {NodesRead(Operands(nodes[i])[k]) : k \in DOMAIN Operands(nodes[i])}

\* the nodes an evaluation of the object can read below it
NodesReadBy(obj) == UNION {NodesRead(Operands(obj)[k]) : k \in DOMAIN Operands(obj)}

\* the outcomes of evaluating the operands of an object, in order
OperandResults(obj) == [k \in DOMAIN Operands(obj) |-> result(nodes[Operands(obj)[k]])]

\* the Operations that can be constructed over the nodes of the heap
Constructible ==
    {Operation(type, args, Len(nodes)).obj[1] :
        type \in _supportedOperations, args \in NodeLists}

\* the heap as it is when every Variable is constructed anew from its
\* attributes, the Variable assigned last from the value assigned
Rebuilt ==
    [j \in DOMAIN nodes |->
        IF nodes[j].cls = "Variable"
        THEN Variable(nodes[j].name,
                      IF last.op = "value" /\ last.node = j THEN last.new ELSE nodes[j].value,
                      nodes[j].unit, nodes[j].format, nodes[j].unitFormat,
                      nodes[j].exponent)
        ELSE nodes[j]]

\* the sum of the values of the Variables a sequence of references names
RECURSIVE SumOf(_)
SumOf(a) == IF a = <<>> THEN 0 ELSE Rebuilt[Head(a)].value[1].v + SumOf(Tail(a))

\* a sequence of references to Variables that hold exact values
AllSet(a) ==
    \A k \in DOMAIN a : /\ Rebuilt[a[k]].cls = "Variable"
                        /\ Rebuilt[a[k]].value # None

---------------------------------------------------------------------------
(* Properties *)

\* C1: for every Expression whose child is an Operation and whose reachable
\* Variables all hold values, str(expression) is name, the child's symbolic
\* form, the child's substituted form and the Expression's own strResult()
\* followed by ' \ ' and the unit in its unitFormat, joined by ' = ';
\* str() raises exactly when one of these parts raises.
C1_ExpressionStr ==
    \A i \in DOMAIN nodes :
        (/\ nodes[i].cls = "Expression"
         /\ nodes[nodes[i].operation].cls = "Operation"
         /\ Unset(VarsUnder(i)) = {})
        => LET e == nodes[i]
               child == nodes[e.operation]
               parts == <<strSymbolic(child), strSubstituted(child), strResult(e, "", 0)>>
               s == str(e)
               two == /\ child.type = "+"
                      /\ Len(child.args) = 2
                      /\ \A k \in 1..2 : /\ nodes[child.args[k]].cls = "Variable"
                                         /\ nodes[child.args[k]].name = "F"
                                         /\ nodes[child.args[k]].format = "%.2f"
                                         /\ nodes[child.args[k]].value = Float(2340)
           IN  /\ Raised(s) <=> FirstRaised(parts) # NoErr
               /\ ~Raised(s) =>
                      s.s = e.name \o " = " \o parts[1].s \o " = " \o parts[2].s \o " = "
                            \o parts[3].s \o " \\ " \o UnitFmt(e.unitFormat, e.unit)
               /\ (two /\ e.format = "%.2f" /\ e.exponent = 0) =>
                      s = RetStr("E_1 = {F} + {F} = 2.34 + 2.34 = 4.68 \\ \\mathrm{kNm}")
               /\ (two /\ e.format = "%.3f" /\ e.exponent = 0 - 2) =>
                      s = RetStr("E_1 = {F} + {F} = 2.34 + 2.34 = "
                                 \o "{ 468.000 \\cdot 10^{-2} } \\ \\mathrm{kNm}")

\* an Expression over F + F with F = 2.34 has been printed in four parts
C1_Witness ==
    \E i \in DOMAIN nodes :
        /\ nodes[i].cls = "Expression"
        /\ nodes[nodes[i].operation].cls = "Operation"
        /\ nodes[nodes[i].operation].type = "+"
        /\ Len(nodes[nodes[i].operation].args) = 2
        /\ Unset(VarsUnder(i)) = {}
        /\ nodes[i].exponent = 0 - 2
        /\ ~Raised(str(nodes[i]))

\* C2: str(variable) is the bare name while the value is unset, and
\* name + ' = ' + strResult() + ' \ ' + unit in its unitFormat otherwise,
\* also right after a number is assigned to a Variable that had none.
C2_VariableStr ==
    \A i \in DOMAIN nodes :
        nodes[i].cls = "Variable"
        => LET v == nodes[i]
           IN  /\ v.value = None => str(v) = RetStr(v.name)
               /\ v.value # None =>
                      str(v) = RetStr(v.name \o " = " \o strResult(v, "", 0).s \o " \\ "
                                      \o UnitFmt(v.unitFormat, v.unit))
               /\ (last.op = "value" /\ last.node = i /\ last.old = None
                   /\ last.new = Float(2340) /\ v.name = "F" /\ v.format = "%.2f") =>
                      str(v) = RetStr("F = 2.34 \\ \\mathrm{kN}")

\* a Variable that had no value has been assigned 2.34
C2_Witness ==
    /\ last.op = "value"
    /\ last.old = None
    /\ last.new = Float(2340)
    /\ str(nodes[last.node]) = RetStr("F = 2.34 \\ \\mathrm{kN}")

\* C3: isSymbolic() of a Variable is (value is unset), of an Operation it
\* is true iff a Variable reachable through its children is unset, of an
\* Expression it is its child's; after a number is assigned to the only
\* unset Variable under a node, the node is not symbolic.
C3_IsSymbolic ==
    \A i \in DOMAIN nodes :
        LET obj == nodes[i]
        IN  /\ obj.cls = "Variable" => (isSymbolic(obj) <=> obj.value = None)
            /\ obj.cls = "Operation" => (isSymbolic(obj) <=> Unset(VarsUnder(i)) # {})
            /\ obj.cls = "Expression" =>
                   (isSymbolic(obj) <=> isSymbolic(nodes[obj.operation]))
            /\ (/\ last.op = "value" /\ last.old = None /\ last.new # None
                /\ last.node \in VarsUnder(i)
                /\ Unset(VarsUnder(i)) \subseteq {last.node})
               => ~isSymbolic(obj)

\* the only unset Variable under an Operation over two Variables has been
\* assigned a number, and the Operation is not symbolic
C3_Witness ==
    /\ last.op = "value"
    /\ last.old = None
    /\ last.new # None
    /\ \E i \in DOMAIN nodes :
           /\ nodes[i].cls = "Operation"
           /\ Cardinality(VarsUnder(i)) = 2
           /\ last.node \in VarsUnder(i)
           /\ ~isSymbolic(nodes[i])

\* C4: after an assignment to the value of a Variable f, result(),
\* strSubstituted() and strResult() of every node above f are the ones
\* computed from the value assigned and the current values of the other
\* Variables (the sum of the values for a sum of Variables, the negated
\* value for a negation): nothing computed before the assignment is kept.
C4_SharedLeaf ==
    last.op = "value"
    => \A i \in DOMAIN nodes :
           (nodes[i].cls # "Variable" /\ last.node \in VarsUnder(i))
           => LET obj == nodes[i]
                  H == HeapOf(Rebuilt)
              IN  /\ result(obj) = Dispatch(H, "result", obj)
                  /\ strSubstituted(obj) = Dispatch(H, "strSubstituted", obj)
                  /\ strResult(obj, "", 0) =
                         (IF obj.cls = "Operation"
                          THEN Operation_strResult(H, obj, "", 0)
                          ELSE Expression_strResult(H, obj, "", 0))
                  /\ (obj.cls = "Operation" /\ obj.type = "+" /\ AllSet(obj.args)) =>
                         result(obj) = RetNum(Num(SumOf(obj.args)))
                  /\ (obj.cls = "Operation" /\ obj.type = "neg" /\ Len(obj.args) = 1
                      /\ AllSet(obj.args)) =>
                         result(obj) = RetNum(Num(0 - SumOf(obj.args)))

\* a Variable under two different Operations has been assigned a number
\* other than the one it held, and both Operations evaluate
C4_Witness ==
    /\ last.op = "value"
    /\ last.old # None
    /\ last.new # None
    /\ last.old # last.new
    /\ \E i, j \in DOMAIN nodes :
           /\ i # j
           /\ nodes[i].cls = "Operation"
           /\ nodes[j].cls = "Operation"
           /\ last.node \in VarsUnder(i) \cap VarsUnder(j)
           /\ ~Raised(result(nodes[i]))
           /\ ~Raised(result(nodes[j]))

\* C5: the Variable returned by toVariable() of a node that evaluates is
\* not symbolic and its result() is the node's result().
C5_ToVariableRoundTrip ==
    (last.op = "toVariable" /\ last.ret > 0 /\ ~Raised(result(nodes[last.node])))
    => /\ ~isSymbolic(nodes[last.ret])
       /\ result(nodes[last.ret]) = result(nodes[last.node])

\* C6: a constructor or builder call that returns an Operation was given
\* the child count of the kind: one child for a unary kind, two for a
\* binary kind, two or more for an n-ary kind.
C6_WrongArityFails ==
    (last.op \in {"Operation"} \cup Builders /\ last.ret > 0)
    => ArityConforms(nodes[last.ret].type, Len(nodes[last.ret].args))

\* C7: a constructor call with a kind outside the supported kinds ends with
\* the module's error, whose message holds the kind, whatever the children
\* are; a call with a supported kind and a child that is neither a node nor
\* a plain number ends with a TypeError; in both cases no Operation results
\* and the heap is as it was.
C7_ConstructorErrors ==
    [][/\ (last'.op = "Operation" /\ last'.type \notin _supportedOperations) =>
              /\ last'.err.exc = "LaTeXExpressionError"
              /\ \E k \in DOMAIN last'.err.msg : last'.err.msg[k] = last'.type
              /\ last'.ret = 0
              /\ nodes' = nodes
       /\ (/\ last'.op \in {"Operation"} \cup Builders
           /\ last'.type \in _supportedOperations
           /\ last'.badArg) =>
              /\ last'.err.exc = "TypeError"
              /\ last'.ret = 0
              /\ nodes' = nodes]_vars

\* the constructor has been called with the kind 'mod' and a str child
C7_Witness ==
    /\ last.op = "Operation"
    /\ last.type = "mod"
    /\ last.badArg
    /\ last.err.exc = "LaTeXExpressionError"

\* C8 as amended: result() of an unset Variable raises the symbolic-result
\* error; result() of a node whose evaluation reads an unset Variable
\* returns no number: it raises the error of the first of its operands
\* that raises, which is the symbolic-result error unless an operand
\* without unset Variables raises an error of its own (a division by zero,
\* a missing operand) before the unset Variable is read.  Checked on every
\* node of the heap and on every Operation of every kind that can be
\* constructed over it.
C8_SymbolicResult ==
    /\ \A i \in DOMAIN nodes :
           (nodes[i].cls = "Variable" /\ nodes[i].value = None)
           => result(nodes[i]) = RaiseNum(SymbolicResultError)
    /\ \A obj \in {nodes[i] : i \in DOMAIN nodes} \cup Constructible :
           (obj.cls # "Variable" /\ Unset(NodesReadBy(obj)) # {})
           => LET r == result(obj)
                  rs == OperandResults(obj)
              IN  /\ Raised(r)
                  /\ r.err = FirstRaised(rs)
                  /\ \/ r.err = SymbolicResultError
                     \/ \E d \in NodesReadBy(obj) :
                            /\ Unset(NodesRead(d)) = {}
                            /\ result(nodes[d]).err = r.err

\* a sum whose first operand divides by zero and whose second operand is an
\* unset Variable raises the ZeroDivisionError
C8_Witness ==
    \E i \in DOMAIN nodes :
        /\ nodes[i].cls = "Operation"
        /\ nodes[i].type = "+"
        /\ Unset(NodesReadBy(nodes[i])) # {}
        /\ result(nodes[i]).err = ZeroDivisionError

\* the trees whose Operations all have the child count of their kind
WellFormed(i) ==
    \A j \in NodesUnder(i) :
        nodes[j].cls = "Operation" => ArityConforms(nodes[j].type, Len(nodes[j].args))

\* C8 as stated, for the trees whose Operations all have the child count of
\* their kind: if a Variable under a node is unset, result() of the node
\* raises the symbolic-result error.
C8_AlwaysSymbolicError ==
    \A i \in DOMAIN nodes :
        (WellFormed(i) /\ Unset(VarsUnder(i)) # {})
        => result(nodes[i]).err = SymbolicResultError

\* C9: strResult() of a Variable with the number x and the exponent 0 is
\* the pattern applied to x when x >= 0 and that text between '\left( ' and
\* ' \right)' when x < 0; the sign is the sign of x, not of the text
\* ('%d' of -0.5 is '0', and is wrapped).
C9_PlainResult ==
    (/\ last.op = "strResult"
     /\ nodes[last.node].value # None
     /\ last.exponent = 0
     /\ nodes[last.node].exponent = 0)
    => LET x == nodes[last.node].value[1]
           f == IF last.format # "" THEN last.format ELSE nodes[last.node].format
       IN  /\ last.err = NoErr
           /\ x.v >= 0 => last.out = Fmt(f, x)
           /\ x.v < 0 => last.out = "\\left( " \o Fmt(f, x) \o " \\right)"
           /\ (x.v = 0 - 500 /\ f = "%d") => last.out = "\\left( 0 \\right)"
           /\ (x.v = 0 - 4 /\ f = "%.2f") => last.out = "\\left( -0.00 \\right)"
           /\ (x.v = 0 - 6543 /\ f = "%.1f") => last.out = "\\left( -6.5 \\right)"
           /\ (x.v = 3250 /\ f = "%.2f") => last.out = "3.25"
           /\ (x.v = 12000 /\ f = "%d") => last.out = "12"

\* strResult('%d') of a Variable holding -0.5 has returned
C9_Witness ==
    /\ last.op = "strResult"
    /\ nodes[last.node].value = Float(0 - 500)
    /\ nodes[last.node].exponent = 0
    /\ last.exponent = 0
    /\ last.format = "%d"
    /\ last.out = "\\left( 0 \\right)"

\* C10: strResult() of a Variable with the number x and the effective
\* exponent e # 0 is the pattern applied to x * 10^(-e), a space and
\* '\cdot 10^{e}', between '\left( ' and ' \right)' when x < 0 and between
\* '{ ' and ' }' otherwise.
C10_ExponentResult ==
    (/\ last.op = "strResult"
     /\ nodes[last.node].value # None
     /\ (last.exponent # 0 \/ nodes[last.node].exponent # 0))
    => LET x == nodes[last.node].value[1]
           f == IF last.format # "" THEN last.format ELSE nodes[last.node].format
           e == IF last.exponent # 0 THEN last.exponent ELSE nodes[last.node].exponent
           scaled == IF e < 0 THEN Num(x.v * Pow10(0 - e))
                              ELSE [fn |-> "", v |-> x.v, sc |-> e]
           body == Fmt(f, scaled) \o " \\cdot 10^{" \o IntStr(e) \o "}"
       IN  /\ last.err = NoErr
           /\ x.v >= 0 => last.out = "{ " \o body \o " }"
           /\ x.v < 0 => last.out = "\\left( " \o body \o " \\right)"
           /\ (x.v = 4340 /\ f = "%.2f" /\ e = 0 - 2) =>
                  last.out = "{ 434.00 \\cdot 10^{-2} }"
           /\ (x.v = 12000 /\ f = "%.1f" /\ e = 2) => last.out = "{ 0.1 \\cdot 10^{2} }"
           /\ (x.v = 0 - 6543 /\ f = "%.3f" /\ e = 2) =>
                  last.out = "\\left( -0.065 \\cdot 10^{2} \\right)"
           /\ (x.v = 0 - 500 /\ f = "%d" /\ e = 0 - 2) =>
                  last.out = "\\left( -50 \\cdot 10^{-2} \\right)"

\* strResult() of a Variable holding 4.34 with the exponent -2 has returned
C10_Witness ==
    /\ last.op = "strResult"
    /\ nodes[last.node].value = Float(4340)
    /\ nodes[last.node].exponent = 0 - 2
    /\ nodes[last.node].format = "%.2f"
    /\ last.exponent = 0
    /\ last.format = ""
    /\ last.out = "{ 434.00 \\cdot 10^{-2} }"

\* C11: strResult(format, exponent) of an Operation and of an Expression
\* that evaluate to r is the text strResult(format, exponent) of a Variable
\* holding r returns, whatever the sign of r and the exponent.
C11_SameFormatter ==
    \A i \in DOMAIN nodes :
        (nodes[i].cls # "Variable" /\ ~isSymbolic(nodes[i]) /\ ~Raised(result(nodes[i])))
        => \A format \in Formats \cup {""}, exponent \in Exponents :
               strResult(nodes[i], format, exponent) =
                   Variable_strResult(Variable("r", <<result(nodes[i]).num>>, "",
                                               nodes[i].format, DefaultUnitFormat,
                                               nodes[i].exponent),
                                      format, exponent)

---------------------------------------------------------------------------
(* LaTeX macro export: toLaTeXVariable of the module, of Variable and of   *)
(* Expression                                                              *)

\* '%s' % x of a float: the shortest decimal text, '2.0' for a whole number
FloatStr(n) ==
    LET RECURSIVE Frac(_, _)
        Frac(m, k) == IF k > 1 /\ m % 10 = 0 THEN Frac(m \div 10, k - 1)
                      ELSE Padded(m, k)
        p == Pow10(3 + n.sc)
    IN  IF ~IsExact(n) THEN "str(" \o n.fn \o ")"
        ELSE (IF n.v < 0 THEN "-" ELSE "") \o NatStr(Abs(n.v) \div p) \o "."
                 \o Frac(Abs(n.v) % p, 3 + n.sc)

\* the module function with every command written in the \def form
toLaTeXVariableDefOnly(name, what, command) ==
    IF command \in {"def", "newcommand", "renewcommand"}
    THEN RetStr("\\def\\" \o name \o "{" \o what \o "}")
    ELSE RaiseStr(Err("LaTeXExpressionError", <<"toLaTeXVariable: wrong command parameter">>))

\* toLaTeXVariable(name, what, command) of the module; what is the text
\* that '%s' % what gives
toLaTeXVariable(name, what, command) ==
    IF command = "def"
    THEN RetStr("\\def\\" \o name \o "{" \o what \o "}")
    ELSE IF command = "newcommand" \/ command = "renewcommand"
    THEN RetStr("\\" \o command \o "{\\" \o name \o "}{" \o what \o "}")
    ELSE RaiseStr(Err("LaTeXExpressionError",
                      <<"toLaTeXVariable: wrong command parameter (should be in ['def','newcommand','renewcommand']">>))

\* what.lower(), on the selectors the export actions try
Lower(what) ==
    CASE what = "FLOAT" -> "float"
      [] what = "Symb" -> "symb"
      [] OTHER -> what

\* raise LaTeXExpressionError, '%s not in %s' % (what, whats)
NotInWhats(what, whats) ==
    LET RECURSIVE Items(_)
        Items(k) == IF k = 0 THEN ""
                    ELSE Items(k - 1) \o (IF k > 1 THEN ", " ELSE "") \o "'" \o whats[k] \o "'"
    IN  Err("LaTeXExpressionError", <<what \o " not in (" \o Items(Len(whats)) \o ")">>)

\* Variable.toLaTeXVariable(name, what, command)
Variable_toLaTeXVariable(self, name, what, command) ==
    LET w == Lower(what)
        whats == <<"float", "str", "valunit", "all", "subst">>
        val == CASE w = "float" ->
                      RetStr(IF self.value = None THEN "None" ELSE FloatStr(self.value[1]))
                 [] w = "str" -> Variable_strResult(self, "", 0)
                 [] w = "valunit" -> Variable_strResultWithUnit(self)
                 [] w = "all" \/ w = "subst" -> Variable__str__(self)
                 [] OTHER -> RetStr("None")
    IN  IF ~\E k \in DOMAIN whats : whats[k] = w THEN RaiseStr(NotInWhats(w, whats))
        ELSE IF Raised(val) THEN val
        ELSE toLaTeXVariable(name, val.s, command)

\* Expression.toLaTeXVariable(name, what, command)
Expression_toLaTeXVariable(H, self, name, what, command) ==
    LET w == Lower(what)
        whats == <<"float", "str", "valunit", "symb", "subst", "all">>
        r == Expression_result(H, self)
        val == CASE w = "float" ->
                      IF Raised(r) THEN RaiseStr(r.err) ELSE RetStr(FloatStr(r.num))
                 [] w = "str" -> Expression_strResult(H, self, "", 0)
                 [] w = "valunit" -> Expression_strResultWithUnit(H, self)
                 [] w = "symb" -> Expression_strSymbolic(self)
                 [] w = "subst" -> Expression_strSubstituted(H, self)
                 [] w = "all" -> Expression__str__(H, self)
                 [] OTHER -> RetStr("None")
    IN  IF ~\E k \in DOMAIN whats : whats[k] = w THEN RaiseStr(NotInWhats(w, whats))
        ELSE IF Raised(val) THEN val
        ELSE toLaTeXVariable(name, val.s, command)

Commands == {"def", "newcommand", "renewcommand", "let"}

\* s = toLaTeXVariable(name, body, command)
ModuleToLaTeXVariable ==
    \E name \in {"AA", "varName"}, command \in Commands,
       body \in {"", "3.45", "{a_{22}} + {F}", "3.45 \\ \\mathrm{mm}"} :
        LET r == toLaTeXVariable(name, body, command)
        IN  /\ nodes' = nodes
            /\ last' = [NoCall EXCEPT !.op = "toLaTeXVariable", !.name = name,
                                      !.body = body, !.command = command,
                                      !.out = r.s, !.err = r.err]

\* s = node.toLaTeXVariable('AA', what, command), of a Variable or Expression:
\* the six selectors of the documentation, two of them in capitals as well,
\* and one that is none of them
NodeToLaTeXVariable ==
    \E i \in DOMAIN nodes, command \in Commands,
       what \in {"float", "str", "valunit", "symb", "subst", "all", "FLOAT", "Symb",
                 "value"} :
        /\ nodes[i].cls \in {"Variable", "Expression"}
        /\ LET r == IF nodes[i].cls = "Variable"
                    THEN Variable_toLaTeXVariable(nodes[i], "AA", what, command)
                    ELSE Expression_toLaTeXVariable(Heap, nodes[i], "AA", what, command)
           IN  /\ nodes' = nodes
               /\ last' = [NoCall EXCEPT !.op = "node.toLaTeXVariable", !.node = i,
                                         !.name = "AA", !.what = what,
                                         !.command = command, !.out = r.s,
                                         !.err = r.err]

\* s = node.toLaTeXVariableFloat('AA', command), which is
\* self.toLaTeXVariable(name, what='float', command=command)
NodeToLaTeXVariableFloat ==
    \E i \in DOMAIN nodes, command \in Commands :
        /\ nodes[i].cls \in {"Variable", "Expression"}
        /\ LET r == IF nodes[i].cls = "Variable"
                    THEN Variable_toLaTeXVariable(nodes[i], "AA", "float", command)
                    ELSE Expression_toLaTeXVariable(Heap, nodes[i], "AA", "float", command)
           IN  /\ nodes' = nodes
               /\ last' = [NoCall EXCEPT !.op = "node.toLaTeXVariableFloat",
                                         !.node = i, !.name = "AA",
                                         !.command = command, !.out = r.s,
                                         !.err = r.err]

\* o = a + b over two of the nodes built so far
TreeSum ==
    \E a \in DOMAIN nodes, b \in DOMAIN nodes :
        LET c == Builder("SUM", <<PyObj(a), PyObj(b)>>, Len(nodes))
        IN  /\ a < b
            /\ Len(nodes) < MaxTree
            /\ ~Raised(c)
            /\ nodes' = nodes \o c.obj
            /\ last' = [NoCall EXCEPT !.op = "SUM", !.type = "+",
                                      !.ret = Len(nodes) + 1]

\* sums and Expressions over the three Variables, and the macros exported
\* from them
SpecMacro ==
    InitTree /\ [][\/ TreeSum \/ TreeExpression
                   \/ ModuleToLaTeXVariable \/ NodeToLaTeXVariable
                   \/ NodeToLaTeXVariableFloat]_vars

\* C12: toLaTeXVariable(name, body, command) of the module returns
\* \def\NAME{body} for 'def', \newcommand{\NAME}{body} for 'newcommand' and
\* \renewcommand{\NAME}{body} for 'renewcommand', the body unchanged; for any
\* other command it raises LaTeXExpressionError and returns no text.
C12_ModuleMacro ==
    last.op = "toLaTeXVariable" =>
        CASE last.command = "def" ->
                 /\ last.err = NoErr
                 /\ last.out = "\\def\\" \o last.name \o "{" \o last.body \o "}"
          [] last.command = "newcommand" ->
                 /\ last.err = NoErr
                 /\ last.out = "\\newcommand{\\" \o last.name \o "}{" \o last.body \o "}"
          [] last.command = "renewcommand" ->
                 /\ last.err = NoErr
                 /\ last.out = "\\renewcommand{\\" \o last.name \o "}{" \o last.body \o "}"
          [] OTHER ->
                 /\ last.err.exc = "LaTeXExpressionError"
                 /\ last.out = ""

\* a \renewcommand of a body with braces and backslashes has been returned
C12_Witness ==
    /\ last.op = "toLaTeXVariable"
    /\ last.out = "\\renewcommand{\\varName}{3.45 \\ \\mathrm{mm}}"

\* C13: node.toLaTeXVariable(name, what, command) of a Variable and of an
\* Expression accepts the selector iff it is one of float, str, valunit,
\* symb, subst, all; for any other selector it raises an error that names
\* the selector and the six valid ones, and returns no macro.
C13_SelectorAccepted ==
    last.op = "node.toLaTeXVariable" =>
        LET six == <<"float", "str", "valunit", "symb", "subst", "all">>
            five == <<"float", "str", "valunit", "all", "subst">>
            rejected == \E w \in {last.what, Lower(last.what)}, whats \in {five, six} :
                            last.err = NotInWhats(w, whats)
        IN  IF \E k \in DOMAIN six : six[k] = last.what
            THEN ~rejected
            ELSE /\ last.err = NotInWhats(last.what, six)
                 /\ last.out = ""

\* C14: exporting the number of a symbolic node, by toLaTeXVariable with
\* the selector 'float' or by toLaTeXVariableFloat, raises the
\* symbolic-result error and returns no macro text, on a Variable without
\* value as on an Expression with an unset leaf below it.
C14_SymbolicFloatExport ==
    (/\ \/ last.op = "node.toLaTeXVariable" /\ last.what = "float"
        \/ last.op = "node.toLaTeXVariableFloat"
     /\ Unset(VarsUnder(last.node)) # {})
    => /\ last.err = SymbolicResultError
       /\ last.out = ""

---------------------------------------------------------------------------
(* Operator overloading: the auxiliary functions _add .. _pos and the      *)
(* special methods of the three classes they are bound to                  *)

\* the reflected subtraction builds SUB(self, v) as _sub does
AuxiliaryRsubAsSub(f, self, v, base) ==
    CASE f \in {"_add", "_radd"} -> Builder("SUM", <<self, v>>, base)
      [] f \in {"_sub", "_rsub"} -> Builder("SUB", <<self, v>>, base)
      [] f \in {"_mul", "_rmul"} -> Builder("MUL", <<self, v>>, base)
      [] f = "_div" -> Builder("DIV", <<self, v>>, base)
      [] f = "_div2" -> Builder("DIV2", <<self, v>>, base)
      [] f = "_pow" -> Builder("POW", <<self, v>>, base)
      [] f = "_rdiv" -> Builder("DIV", <<v, self>>, base)
      [] f = "_rdiv2" -> Builder("DIV2", <<v, self>>, base)
      [] f = "_rpow" -> Builder("POW", <<v, self>>, base)
      [] f = "_neg" -> Builder("NEG", <<self>>, base)
      [] f = "_pos" -> Builder("POS", <<self>>, base)

\* the auxiliary function f called: def _add(self,v): return ADD(self,v) ..
\* def _pos(self): return POS(self), where ADD is SUM
Auxiliary(f, self, v, base) ==
    CASE f = "_add" -> Builder("SUM", <<self, v>>, base)
      [] f = "_sub" -> Builder("SUB", <<self, v>>, base)
      [] f = "_mul" -> Builder("MUL", <<self, v>>, base)
      [] f = "_div" -> Builder("DIV", <<self, v>>, base)
      [] f = "_div2" -> Builder("DIV2", <<self, v>>, base)
      [] f = "_pow" -> Builder("POW", <<self, v>>, base)
      [] f = "_radd" -> Builder("SUM", <<v, self>>, base)
      [] f = "_rsub" -> Builder("SUB", <<v, self>>, base)
      [] f = "_rmul" -> Builder("MUL", <<v, self>>, base)
      [] f = "_rdiv" -> Builder("DIV", <<v, self>>, base)
      [] f = "_rdiv2" -> Builder("DIV2", <<v, self>>, base)
      [] f = "_rpow" -> Builder("POW", <<v, self>>, base)
      [] f = "_neg" -> Builder("NEG", <<self>>, base)
      [] f = "_pos" -> Builder("POS", <<self>>, base)

\* the special methods each class is given and the function behind each
Bindings ==
    LET fourteen == [__add__ |-> "_add", __sub__ |-> "_sub", __mul__ |-> "_mul",
                     __div__ |-> "_div", __floordiv__ |-> "_div2", __pow__ |-> "_pow",
                     __radd__ |-> "_radd", __rsub__ |-> "_rsub", __rmul__ |-> "_rmul",
                     __rdiv__ |-> "_rdiv", __rfloordiv__ |-> "_rdiv2",
                     __rpow__ |-> "_rpow", __neg__ |-> "_neg", __pos__ |-> "_pos"]
    IN  [Variable |-> fourteen,
         Operation |-> fourteen @@
                       [__iadd__ |-> "_add", __isub__ |-> "_sub", __imul__ |-> "_mul",
                        __idiv__ |-> "_div", __ifloordiv__ |-> "_div2",
                        __ineg__ |-> "_neg", __ipos__ |-> "_pos"],
         Expression |-> fourteen]

\* the special method an operator calls on its left operand and the
\* reflected one it calls on its right operand
MethodOf ==
    [op \in {"x+y", "x-y", "x*y", "x/y", "x//y", "x**y", "-x", "+x"} |->
        CASE op = "x+y" -> <<"__add__", "__radd__">>
          [] op = "x-y" -> <<"__sub__", "__rsub__">>
          [] op = "x*y" -> <<"__mul__", "__rmul__">>
          [] op = "x/y" -> <<"__div__", "__rdiv__">>
          [] op = "x//y" -> <<"__floordiv__", "__rfloordiv__">>
          [] op = "x**y" -> <<"__pow__", "__rpow__">>
          [] op = "-x" -> <<"__neg__">>
          [] op = "+x" -> <<"__pos__">>]

\* x op y where x or y is a node of ns: the method of the left operand if it
\* is a node that has it, else the reflected method of the right one
BinaryOp(ns, op, x, y) ==
    LET m == MethodOf[op]
    IN  IF x.py = "obj" /\ m[1] \in DOMAIN Bindings[ns[x.v].cls]
        THEN Auxiliary(Bindings[ns[x.v].cls][m[1]], x, y, Len(ns))
        ELSE IF y.py = "obj" /\ m[2] \in DOMAIN Bindings[ns[y.v].cls]
        THEN Auxiliary(Bindings[ns[y.v].cls][m[2]], y, x, Len(ns))
        ELSE [err |-> Err("TypeError", <<"unsupported operand type(s)">>),
              obj |-> <<>>, made |-> <<>>]

\* op x where x is a node of ns
UnaryOp(ns, op, x) ==
    LET m == MethodOf[op]
    IN  IF m[1] \in DOMAIN Bindings[ns[x.v].cls]
        THEN Auxiliary(Bindings[ns[x.v].cls][m[1]], x, x, Len(ns))
        ELSE [err |-> Err("TypeError", <<"bad operand type for unary">>),
              obj |-> <<>>, made |-> <<>>]

\* o = x op y, each of x and y a node or the number 2.5, one a node at least
BinaryOperator ==
    \E op \in {o \in DOMAIN MethodOf : Len(MethodOf[o]) = 2},
       x \in {PyObj(i) : i \in DOMAIN nodes} \cup {PyFloat(2500)},
       y \in {PyObj(i) : i \in DOMAIN nodes} \cup {PyFloat(2500)} :
        /\ x.py = "obj" \/ y.py = "obj"
        /\ LET c == BinaryOp(nodes, op, x, y)
           IN  IF Raised(c)
               THEN /\ nodes' = nodes
                    /\ last' = [NoCall EXCEPT !.op = op, !.args = <<x, y>>,
                                              !.err = c.err]
               ELSE /\ Len(nodes) + Len(c.made) < MaxTree
                    /\ nodes' = nodes \o c.made \o c.obj
                    /\ last' = [NoCall EXCEPT !.op = op, !.args = <<x, y>>,
                                              !.ret = Len(nodes) + Len(c.made) + 1]

\* o = -x, o = +x
UnaryOperator ==
    \E op \in {o \in DOMAIN MethodOf : Len(MethodOf[o]) = 1}, i \in DOMAIN nodes :
        LET c == UnaryOp(nodes, op, PyObj(i))
        IN  IF Raised(c)
            THEN /\ nodes' = nodes
                 /\ last' = [NoCall EXCEPT !.op = op, !.args = <<PyObj(i)>>,
                                           !.err = c.err]
            ELSE /\ Len(nodes) < MaxTree
                 /\ nodes' = nodes \o c.obj
                 /\ last' = [NoCall EXCEPT !.op = op, !.args = <<PyObj(i)>>,
                                           !.ret = Len(nodes) + 1]

\* the three Variables combined by the arithmetic operators
SpecOps == InitTree /\ [][BinaryOperator \/ UnaryOperator \/ TreeExpression]_vars

\* the kind of Operation each operator is to build
KindOfOperator(op) ==
    CASE op = "x+y" -> "+"
      [] op = "x-y" -> "-"
      [] op = "x*y" -> "*"
      [] op = "x/y" -> "/"
      [] op = "x//y" -> "//"
      [] op = "x**y" -> "pow"
      [] op = "-x" -> "neg"
      [] op = "+x" -> "pos"
      [] OTHER -> ""

\* C15: x+y, x-y, x*y, x/y, x//y, x**y, -x and +x, with a node among the
\* operands and a plain number allowed as the other, return a new Operation
\* of the kind +, -, *, /, //, pow, neg, pos whose children are the operands
\* in the order written, a number in the place it was written at as a
\* Variable holding it; nothing is evaluated (unset operands and a zero
\* divisor raise nothing) and the nodes that existed are left as they were.
C15_Operators ==
    [][KindOfOperator(last'.op) # "" =>
          /\ last'.err = NoErr
          /\ last'.ret = Len(nodes') /\ last'.ret > Len(nodes)
          /\ SubSeq(nodes', 1, Len(nodes)) = nodes
          /\ LET o == nodes'[last'.ret]
             IN  /\ o.cls = "Operation"
                 /\ o.type = KindOfOperator(last'.op)
                 /\ Len(o.args) = Len(last'.args)
                 /\ \A k \in DOMAIN o.args :
                        IF last'.args[k].py = "obj"
                        THEN o.args[k] = last'.args[k].v
                        ELSE /\ o.args[k] > Len(nodes) /\ o.args[k] < last'.ret
                             /\ nodes'[o.args[k]].cls = "Variable"
                             /\ nodes'[o.args[k]].value = Float(last'.args[k].v)]_vars

\* 2.5 - u has been written, u a Variable without value: the Operation is
\* a subtraction of u from the number
C15_Witness ==
    /\ last.op = "x-y"
    /\ last.args = <<PyFloat(2500), PyObj(3)>>
    /\ nodes[3].value = None
    /\ nodes[last.ret].type = "-"
    /\ nodes[last.ret].args = <<last.ret - 1, 3>>

\* C16: a plain number n written as a child of an Operation is replaced by
\* a new Variable with the value n, an integer-style format and n's own
\* decimal rendering as name; the number shown for the child by the
\* symbolic and by the substituted rendering is the n that result() uses.
C16_WrappedNumber ==
    (KindOfOperator(last.op) # "" /\ last.err = NoErr) =>
        \A k \in DOMAIN last.args :
            last.args[k].py = "float" =>
                LET w == nodes[nodes[last.ret].args[k]]
                    n == Num(last.args[k].v)
                    Denotes(text) == \E d \in 0..3 : /\ n.v % Pow10(3 - d) = 0
                                                     /\ text = FixedStr(n.v, 3, d)
                IN  /\ w.cls = "Variable"
                    /\ w.value = <<n>>
                    /\ w.format = "%d"
                    /\ w.name = FloatStr(n)
                    /\ result(w) = RetNum(n)
                    /\ strSymbolic(w) = RetStr("{" \o w.name \o "}")
                    /\ Denotes(w.name)
                    /\ Denotes(strSubstituted(w).s)

\* C17: toVariable() of a node with an unset leaf below it raises and
\* returns no Variable; of a node that evaluates it returns a new Variable
\* with the node's unit, format, unitFormat and exponent, named newName if
\* one is given and as the node otherwise.
C17_ToVariable ==
    last.op = "toVariable" =>
        LET node == nodes[last.node]
        IN  IF Unset(VarsUnder(last.node)) # {}
            THEN last.err # NoErr /\ last.ret = 0
            ELSE ~Raised(result(node)) =>
                     /\ last.err = NoErr
                     /\ last.ret = Len(nodes)
                     /\ nodes[last.ret].cls = "Variable"
                     /\ nodes[last.ret].format = node.format
                     /\ nodes[last.ret].exponent = node.exponent
                     /\ node.cls = "Expression" =>
                            /\ nodes[last.ret].unit = node.unit
                            /\ nodes[last.ret].unitFormat = node.unitFormat
                            /\ nodes[last.ret].name =
                                   (IF last.name # "" THEN last.name ELSE node.name)
                     /\ node.cls = "Operation" => nodes[last.ret].name = last.name

\* C18: LOG(a, b) returns an Operation of the kind log with the children
\* a, b, rendered as \log_{ a }{ b }, whose result() is ln(b)/ln(a); it is
\* the Operation that Operation('log', a, b) returns.
C18_LogBuilder ==
    \A a \in DOMAIN nodes, b \in DOMAIN nodes :
        LET args == <<PyObj(a), PyObj(b)>>
            c == Builder("LOG", args, Len(nodes))
            d == Operation("log", args, Len(nodes))
            lna == MathLog(result(nodes[a]).num)
            lnb == MathLog(result(nodes[b]).num)
        IN  /\ ~Raised(c) /\ ~Raised(d)
            /\ c.obj = d.obj
            /\ c.obj[1].type = "log"
            /\ c.obj[1].args = <<a, b>>
            /\ strSymbolic(c.obj[1]) =
                   Wrap2("\\log_{ ", strSymbolic(nodes[a]), " }{ ",
                         strSymbolic(nodes[b]), " }")
            /\ strSubstituted(c.obj[1]) =
                   Wrap2("\\log_{ ", strSubstituted(nodes[a]), " }{ ",
                         strSubstituted(nodes[b]), " }")
            /\ (/\ ~Raised(result(nodes[a])) /\ ~Raised(result(nodes[b]))
                /\ ~Raised(lna) /\ ~Raised(lnb))
               => /\ result(c.obj[1]) = FDiv(lnb.num, lna.num)
                  /\ result(d.obj[1]) = FDiv(lnb.num, lna.num)

---------------------------------------------------------------------------
(* Sums and Expressions over the three Variables, whose values are         *)
(* assigned and taken away again                                           *)

SpecAssign == InitTree /\ [][TreeSum \/ TreeExpression \/ SetValue]_vars

\* C19: for an Expression whose child Operation has an unset Variable below
\* it, str(expression) is name = child.strSymbolic() = child.strSubstituted()
\* with no result and no unit, the unset Variables shown by their names in
\* braces and the others by their formatted values; once the last unset
\* Variable has been assigned a number, str() has the four-part form.
C19_SymbolicExpressionStr ==
    \A i \in DOMAIN nodes :
        (nodes[i].cls = "Expression" /\ nodes[nodes[i].operation].cls = "Operation")
        => LET e == nodes[i]
               child == nodes[e.operation]
               s == str(e)
               three == <<strSymbolic(child), strSubstituted(child)>>
               four == three \o <<strResult(e, "", 0)>>
               flat == \A k \in DOMAIN child.args : nodes[child.args[k]].cls = "Variable"
               LeafShown(v) == IF v.value = None THEN RetStr("{" \o v.name \o "}")
                               ELSE RetStr(Fmt(v.format, v.value[1]))
               vu == /\ flat /\ child.args = <<2, 3>>
                     /\ nodes[2].value = Float(2340)
                     /\ nodes[3].value \in {None, Float(2340)}
           IN  IF Unset(VarsUnder(i)) # {}
               THEN /\ Raised(s) <=> FirstRaised(three) # NoErr
                    /\ ~Raised(s) =>
                           s.s = e.name \o " = " \o three[1].s \o " = " \o three[2].s
                    /\ flat => three[2] = Join(" + ", [k \in DOMAIN child.args |->
                                                          LeafShown(nodes[child.args[k]])])
                    /\ vu => s = RetStr("E_1 = {v} + {u} = 2.34 + {u}")
               ELSE (/\ last.op = "value" /\ last.old = None
                     /\ last.node \in VarsUnder(i))
                    => /\ Raised(s) <=> FirstRaised(four) # NoErr
                       /\ ~Raised(s) =>
                              s.s = e.name \o " = " \o four[1].s \o " = " \o four[2].s
                                    \o " = " \o four[3].s \o " \\ "
                                    \o UnitFmt(e.unitFormat, e.unit)
                       /\ vu => s = RetStr("E_1 = {v} + {u} = 2.34 + 2.34 = 4.68 \\ \\mathrm{m}")

\* u of E_1 = v + u, the only Variable without value, has been set to 2.34
C19_Witness ==
    \E i \in DOMAIN nodes :
        /\ nodes[i].cls = "Expression"
        /\ nodes[nodes[i].operation].cls = "Operation"
        /\ nodes[nodes[i].operation].args = <<2, 3>>
        /\ last.op = "value" /\ last.node = 3 /\ last.old = None
        /\ last.new = Float(2340)
        /\ Unset(VarsUnder(i)) = {}
        /\ str(nodes[i]) = RetStr("E_1 = {v} + {u} = 2.34 + 2.34 = 4.68 \\ \\mathrm{m}")

\* C20: for an Expression that evaluates and whose child is a Variable or
\* another Expression, str(expression) is name = child.strSymbolic() =
\* child.strSubstituted() = strResult() with the unit; the child's own unit
\* and the child's own str() are not part of it.
C20_BareChildStr ==
    \A i \in DOMAIN nodes :
        (/\ nodes[i].cls = "Expression"
         /\ nodes[nodes[i].operation].cls \in {"Variable", "Expression"}
         /\ Unset(VarsUnder(i)) = {}
         /\ ~Raised(result(nodes[i])))
        => LET e == nodes[i]
               child == nodes[e.operation]
           IN  str(e) = RetStr(e.name \o " = " \o strSymbolic(child).s \o " = "
                               \o strSubstituted(child).s \o " = "
                               \o strResult(e, "", 0).s \o " \\ "
                               \o UnitFmt(e.unitFormat, e.unit))


---------------------------------------------------------------------------
(* Sums and Expressions over the three Variables that are edited in place  *)

\* an assignment that leaves the child as it is
Expression_set_operationKeep(self, o) == self

\* Expression._set_operation: self.operation = o
Expression_set_operation(self, o) == [self EXCEPT !.operation = o]

\* e.operation = o, or e.o = o through the property, o any node
SetOperation ==
    \E i \in DOMAIN nodes, o \in DOMAIN nodes, attr \in {"operation", "o"} :
        /\ nodes[i].cls = "Expression"
        /\ nodes' = [nodes EXCEPT ![i] = Expression_set_operation(@, o)]
        /\ last' = [NoCall EXCEPT !.op = attr, !.node = i, !.ret = o,
                                  !.args = <<PyObj(nodes[i].operation), PyObj(o)>>]

\* Variable.copy: ret = Variable() calls __init__(self, name, value, ...)
\* with no argument, then ret.name = self.name ... ret.exponent = self.exponent
Variable_copy(self) ==
    LET given == <<>>
        required == <<"name", "value">>
    IN  IF Len(given) < Len(required)
        THEN [err |-> Err("TypeError", <<"__init__() takes at least 3 arguments (1 given)">>),
              obj |-> self, made |-> FALSE]
        ELSE [err |-> NoErr, made |-> TRUE,
              obj |-> Variable(self.name, self.value, self.unit, self.format,
                               self.unitFormat, self.exponent)]

\* w = v.copy()
Copy ==
    \E i \in DOMAIN nodes :
        LET c == Variable_copy(nodes[i])
        IN  /\ nodes[i].cls = "Variable"
            /\ Len(nodes) < MaxTree \/ ~c.made
            /\ nodes' = IF c.made THEN Append(nodes, c.obj) ELSE nodes
            /\ last' = [NoCall EXCEPT !.op = "copy", !.node = i, !.err = c.err,
                                      !.ret = IF c.made THEN Len(nodes) + 1 ELSE 0]

SpecEdit == InitTree /\ [][TreeSum \/ TreeExpression \/ SetOperation \/ Copy]_vars

\* C21: assigning expression.operation, or expression.o, changes the child
\* link of the Expression and nothing else in the heap: name, unit, format,
\* unitFormat, exponent and the old child stay; isSymbolic(), result(),
\* strResult() and str() of the Expression are afterwards those of an
\* Expression with the same attributes built over the new child (stated
\* where the new child does not lead back to the Expression).
C21_ReplaceChild ==
    [][last'.op \in {"operation", "o"} =>
          LET i == last'.node
              o == last'.ret
              RECURSIVE Grow(_, _)
              Grow(S, k) == IF k = 0 THEN S
                            ELSE Grow(S \cup UNION {Children(nodes'[c]) : c \in S}, k - 1)
              Below(c) == Grow(Children(nodes'[c]), Len(nodes))
              fresh == Expression(nodes[i].name, o, nodes[i].unit, nodes[i].format,
                                  nodes[i].unitFormat, nodes[i].exponent)
              H2 == HeapOf(nodes')
          IN  /\ nodes[i].cls = "Expression"
              /\ nodes' = [nodes EXCEPT ![i] = fresh]
              /\ \A k \in DOMAIN nodes : k # i => nodes'[k] = nodes[k]
              /\ (\A c \in Below(i) \cup {i} : c \notin Below(c)) =>
                     /\ Dispatch(H2, "isSymbolic", nodes'[i]) = isSymbolic(fresh)
                     /\ Dispatch(H2, "result", nodes'[i]) = result(fresh)
                     /\ Dispatch(H2, "__str__", nodes'[i]) = str(fresh)
                     /\ Expression_strResult(H2, nodes'[i], "", 0) = strResult(fresh, "", 0)
                     /\ Dispatch(H2, "result", nodes'[i]) = result(nodes[o])]_vars

\* E_1 over the unset u has been given the child z + v through e.o, and it
\* evaluates now
C21_Witness ==
    /\ last.op = "o"
    /\ last.args[1] = PyObj(3)
    /\ nodes[last.ret].cls = "Operation"
    /\ nodes[last.ret].args = <<1, 2>>
    /\ nodes[last.node].operation = last.ret
    /\ result(nodes[last.node]) = RetNum(Num(2340))


\* C22: Variable.copy() returns a new Variable, distinct from the receiver,
\* with the receiver's name, value, unit, format, unitFormat and exponent;
\* the receiver is unchanged.
C22_HardCopy ==
    last.op = "copy" =>
        /\ last.err = NoErr
        /\ last.ret \in DOMAIN nodes
        /\ last.ret # last.node
        /\ nodes[last.ret] = nodes[last.node]
        /\ nodes[last.node] = Leaves[last.node]


\* C23: for every Operation of the kinds add, multiply, max, min (two or
\* three children), subtract, both divides (two children), negate, absolute
\* value, square, identity, positive and the four brackets (one child), over
\* children whose Variables are all set and whose Operations have the child
\* count of their kind: when the children evaluate to a0, a1, ..., result()
\* is their sum, their product taken in order, their maximum, their minimum,
\* a0 - a1, -a0, |a0|, a0 * a0, a0; the two divides return the same outcome,
\* a number unless a1 is zero. When a child raises, result() raises the
\* first such error.
C23_ReferenceResult ==
    \A type \in {"+", "*", "max", "min", "-", "/", "//", "neg", "abs", "sqr",
                 "", "pos", "()", "[]", "{}", "<>"} :
      \A n \in 1..3 : \A ids \in [1..n -> DOMAIN nodes] :
        (/\ ArityConforms(type, n)
         /\ \A k \in 1..n : WellFormed(ids[k]) /\ Unset(VarsUnder(ids[k])) = {})
        => LET obj == Operation(type, [k \in 1..n |-> PyObj(ids[k])], Len(nodes)).obj[1]
               rs == [k \in 1..n |-> result(nodes[ids[k]])]
               a == [k \in 1..n |-> rs[k].num.v]
               r == result(obj)
               RECURSIVE Sum(_), Product(_)
               Sum(k) == IF k = 0 THEN 0 ELSE Sum(k - 1) + a[k]
               Product(k) == IF k = 1 THEN a[1] ELSE RoundDiv(Product(k - 1) * a[k], Milli)
               Greatest == CHOOSE m \in {a[k] : k \in 1..n} : \A k \in 1..n : a[k] <= m
               Least == CHOOSE m \in {a[k] : k \in 1..n} : \A k \in 1..n : a[k] >= m
           IN  IF \E k \in 1..n : Raised(rs[k])
               THEN r = RaiseNum(FirstRaised(rs))
               ELSE /\ \A k \in 1..n : IsExact(rs[k].num) /\ rs[k].num.sc = 0
                    /\ CASE type = "+" -> r = RetNum(Num(Sum(n)))
                         [] type = "*" -> r = RetNum(Num(Product(n)))
                         [] type = "max" -> r = RetNum(Num(Greatest))
                         [] type = "min" -> r = RetNum(Num(Least))
                         [] type = "-" -> r = RetNum(Num(a[1] - a[2]))
                         [] type \in {"/", "//"} ->
                                /\ r = result([obj EXCEPT !.type = "/"])
                                /\ r = result([obj EXCEPT !.type = "//"])
                                /\ Raised(r) <=> a[2] = 0
                                /\ Raised(r) => r = RaiseNum(ZeroDivisionError)
                         [] type = "neg" -> r = RetNum(Num(0 - a[1]))
                         [] type = "abs" -> r = RetNum(Num(IF a[1] < 0 THEN 0 - a[1] ELSE a[1]))
                         [] type = "sqr" -> r = RetNum(Num(RoundDiv(a[1] * a[1], Milli)))
                         [] OTHER -> r = rs[1]

\* the heap holds -v and v / -v; over them and v, the sum -v + v + v is v,
\* the product -v * (v / -v) * v is v * v and the minimum of v, -v, v / -v
\* is -v
C23_Witness ==
    \E i \in DOMAIN nodes, j \in DOMAIN nodes :
        /\ nodes[i].cls = "Operation" /\ nodes[i].type = "neg" /\ nodes[i].args = <<2>>
        /\ nodes[j].cls = "Operation" /\ nodes[j].type = "/" /\ nodes[j].args = <<2, i>>
        /\ result(Operation("+", <<PyObj(i), PyObj(2), PyObj(2)>>, Len(nodes)).obj[1])
               = RetNum(Num(2340))
        /\ result(Operation("*", <<PyObj(i), PyObj(j), PyObj(2)>>, Len(nodes)).obj[1])
               = RetNum(Num(5476))
        /\ result(Operation("min", <<PyObj(2), PyObj(i), PyObj(j)>>, Len(nodes)).obj[1])
               = RetNum(Num(0 - 2340))


\* C24: every supported kind is in exactly one of the three arity classes,
\* and for every Operation the constructor or a builder returns with the
\* child count of its kind, over children that are well formed and whose
\* Variables are all set and that evaluate: strSymbolic() and
\* strSubstituted() return, and result() returns or raises a numeric
\* domain error (division by zero, math domain error); the
\* unsupported-operation error is raised by none of them.
C24_TablesInSync ==
    /\ \A t \in _supportedOperations :
           Cardinality({S \in {_supportedOperations1, _supportedOperations2,
                               _supportedOperationsN} : t \in S}) = 1
    /\ _supportedOperations1 \cup _supportedOperations2 \cup _supportedOperationsN
           = _supportedOperations
    /\ \A n \in 1..3 : \A ids \in [1..n -> DOMAIN nodes] :
         LET args == [k \in 1..n |-> PyObj(ids[k])]
             made == {Operation(t, args, Len(nodes)) : t \in _supportedOperations}
                         \cup {Builder(b, args, Len(nodes)) : b \in DOMAIN BuilderKind}
         IN  \A c \in made :
               (/\ ~Raised(c)
                /\ ArityConforms(c.obj[1].type, n)
                /\ \A k \in 1..n : /\ WellFormed(ids[k])
                                   /\ Unset(VarsUnder(ids[k])) = {}
                                   /\ ~Raised(result(nodes[ids[k]])))
               => /\ ~Raised(strSymbolic(c.obj[1]))
                  /\ ~Raised(strSubstituted(c.obj[1]))
                  /\ result(c.obj[1]).err \in {NoErr, ZeroDivisionError, MathDomainError}


\* C25: in every state reached by constructor calls and child replacements
\* no Operation or Expression is reachable from itself through child links.
C25_NoCycle ==
    LET RECURSIVE Grow(_, _)
        Grow(S, k) == IF k = 0 THEN S
                      ELSE Grow(S \cup UNION {Children(nodes[c]) : c \in S}, k - 1)
        Below(i) == Grow(Children(nodes[i]), Len(nodes))
    IN  \A i \in DOMAIN nodes : i \notin Below(i)


---------------------------------------------------------------------------
(* The translation of an Operation to the external symbolic engine: the    *)
(* external expression is written as text, o2s(k) for the translation of   *)
(* the child k and node(k) for the child itself                            *)

\* _operation2sympy on an Operation: the branch of the arity class, then the
\* entry of the kind; latexexpr has no attributes _ADD and _SUB
_operation2sympy(arg) ==
    LET t == arg.type
        o2s(k) == "o2s(" \o NatStr(arg.args[k]) \o ")"
        node(k) == "node(" \o NatStr(arg.args[k]) \o ")"
        One(f) == f \o "(" \o o2s(1) \o ")"
        Two(f, x, y) == f \o "(" \o x \o ", " \o y \o ")"
    IN  IF t \in _supportedOperationsN THEN "raise AttributeError: _ADD"
        ELSE IF t \in _supportedOperations2 THEN "raise AttributeError: _SUB"
        ELSE IF t \in _supportedOperations1
        THEN CASE t = "neg" -> Two("Mul", o2s(1), "-1")
               [] t = "abs" -> One("Abs")
               [] t = "sqr" -> Two("Pow", o2s(1), "2")
               [] t = "sqrt" -> Two("Pow", o2s(1), "-2")
               [] t \in {"sin", "cos", "tan", "sinh"} -> One(t)
               [] t \in {"cosh", "tanh"} -> One("sinh")
               [] t = "exp" -> One("exp")
               [] t = "ln" -> One("log")
               [] t = "log10" -> Two("log", node(1), "10")
               [] t \in {"", "()", "[]", "{}", "<>", "pos"} -> o2s(1)
        ELSE "raise LaTeXExpressionError: TODO"

\* C26: the translation to the external engine maps an Operation to the
\* external operation that denotes the same function of the translated
\* children in the same order: sqrt(a) to Pow(a, 1/2), root(a, b) to
\* Pow(b, 1/a), cosh to cosh, tanh to tanh, log10(a) to log(a, 10), negate
\* to Mul(a, -1), subtract(a, b) to Add(a, Mul(-1, b)).
C26_BridgeKinds ==
    \A obj \in Constructible :
        ArityConforms(obj.type, Len(obj.args))
        => LET a(k) == "o2s(" \o NatStr(obj.args[k]) \o ")"
               s == _operation2sympy(obj)
           IN  CASE obj.type = "sqrt" -> s = "Pow(" \o a(1) \o ", 1/2)"
                 [] obj.type = "root" -> s = "Pow(" \o a(2) \o ", Pow(" \o a(1) \o ", -1))"
                 [] obj.type = "cosh" -> s = "cosh(" \o a(1) \o ")"
                 [] obj.type = "tanh" -> s = "tanh(" \o a(1) \o ")"
                 [] obj.type = "log10" -> s = "log(" \o a(1) \o ", 10)"
                 [] obj.type = "neg" -> s = "Mul(" \o a(1) \o ", -1)"
                 [] obj.type = "-" -> s = "Add(" \o a(1) \o ", Mul(-1, " \o a(2) \o "))"
                 [] OTHER -> TRUE


\* C27: for every node built through the constructors, whatever the child
\* count, isSymbolic() is true exactly when result() raises the
\* symbolic-result error, and false exactly when no Variable that the
\* evaluation reads is unset.
C27_SymbolicIffUnevaluable ==
    \A i \in DOMAIN nodes :
        /\ isSymbolic(nodes[i]) <=> result(nodes[i]).err = SymbolicResultError
        /\ isSymbolic(nodes[i]) <=> Unset(NodesRead(i)) # {}



\* C28: a call strResult(format, exponent) on a Variable that holds x, and
\* the same call on an Operation and on an Expression with the Variable's
\* stored format and exponent that evaluate to x, renders x with the format
\* argument when it is non-empty and with the stored format when it is '',
\* with the exponent argument when it is non-zero and with the stored
\* exponent when it is 0: a stored exponent that is not 0 is rendered in
\* scientific notation also for the argument 0. The call changes no stored
\* format and no stored exponent. On a node without value the arguments
\* play no part.
C28_OverrideIffGiven ==
    [][last'.op = "strResult" =>
          LET i == last'.node
              v == nodes[i]
              format == last'.format
              exponent == last'.exponent
              o == [Operation("pos", <<PyObj(i)>>, Len(nodes)).obj[1]
                        EXCEPT !.format = v.format, !.exponent = v.exponent]
              x == Expression("E_1", i, "m", v.format, "%s", v.exponent)
              f == IF format = "" THEN v.format ELSE format
              e == IF exponent = 0 THEN v.exponent ELSE exponent
              n == v.value[1]
              scaled == IF e < 0 THEN Num(n.v * Pow10(0 - e))
                                 ELSE [fn |-> "", v |-> n.v, sc |-> e]
              sci == Fmt(f, scaled) \o " \\cdot 10^{" \o IntStr(e) \o "}"
              Rendered(open, close) ==
                  IF e = 0
                  THEN (IF n.v < 0 THEN open \o Fmt(f, n) \o close ELSE Fmt(f, n))
                  ELSE (IF n.v < 0 THEN "\\left( " \o sci \o " \\right)"
                                   ELSE "{ " \o sci \o " }")
          IN  /\ nodes' = nodes
              /\ o.format = v.format /\ o.exponent = v.exponent
              /\ v.value # None =>
                     /\ last'.err = NoErr
                     /\ last'.out = Rendered("\\left( ", " \\right)")
                     /\ strResult(o, format, exponent) = RetStr(Rendered("\\left( ", " \\right)"))
                     /\ strResult(x, format, exponent) = RetStr(Rendered("\\left(", "\\right)"))
                     /\ (v.value = Float(4340) /\ v.format = "%.2f" /\ v.exponent = 2
                         /\ format = "%d" /\ exponent = 0)
                        => strResult(x, format, exponent) = RetStr("{ 0 \\cdot 10^{2} }")
              /\ v.value = None =>
                     /\ last'.out = "{v_3}"
                     /\ strResult(o, format, exponent) = RetStr("{v_3}")
                     /\ strResult(x, format, exponent) = RetStr("{v_3}")]_vars

\* strResult('%d', 0) on the Variable 4.34 with the stored format '%.2f' and
\* the stored exponent 2 has returned in scientific notation, with the
\* format of the argument
C28_Witness ==
    /\ last.op = "strResult"
    /\ nodes[last.node].value = Float(4340)
    /\ nodes[last.node].exponent = 2
    /\ nodes[last.node].format = "%.2f"
    /\ last.exponent = 0
    /\ last.format = "%d"
    /\ last.out = "{ 0 \\cdot 10^{2} }"


---------------------------------------------------------------------------
(* Queries and augmented assignments on sums and Expressions over the      *)
(* three Variables                                                         *)

\* r = node.q() for the queries of the class of the node; float(node) is
\* node.result() and str(node) is node.__str__(); toVariable returns a new
\* Variable
Query ==
    \E i \in DOMAIN nodes,
       q \in {"strSymbolic", "strSubstituted", "strResult", "strResultWithUnit", "result",
              "float", "str", "isSymbolic", "toLaTeXVariable", "toVariable"} :
      \E H \in {HeapOf(nodes)} :
        LET obj == nodes[i]
            m == CASE q = "float" -> "result" [] q = "str" -> "__str__" [] OTHER -> q
        IN  /\ q \in {"strResultWithUnit", "toLaTeXVariable"} => obj.cls # "Operation"
            /\ q = "toVariable" => obj.cls # "Variable"
            /\ \E r \in {CASE m \in Methods -> Dispatch(H, m, obj)
                            [] q = "strResult" ->
                                   (CASE obj.cls = "Variable" -> Variable_strResult(obj, "", 0)
                                      [] obj.cls = "Operation" ->
                                             Operation_strResult(H, obj, "", 0)
                                      [] obj.cls = "Expression" ->
                                             Expression_strResult(H, obj, "", 0))
                            [] q = "strResultWithUnit" ->
                                   IF obj.cls = "Variable" THEN Variable_strResultWithUnit(obj)
                                   ELSE Expression_strResultWithUnit(H, obj)
                            [] q = "toLaTeXVariable" ->
                                   IF obj.cls = "Variable"
                                   THEN Variable_toLaTeXVariable(obj, "AA", "all", "newcommand")
                                   ELSE Expression_toLaTeXVariable(H, obj, "AA", "all",
                                                                   "newcommand")
                            [] q = "toVariable" ->
                                   IF obj.cls = "Operation"
                                   THEN Operation_toVariable(H, obj, "v_7", NoKw)
                                   ELSE Expression_toVariable(H, obj, "v_7")} :
                   IF q = "toVariable" /\ ~Raised(r)
                   THEN /\ Len(nodes) < MaxTree
                        /\ nodes' = nodes \o r.obj
                        /\ last' = [NoCall EXCEPT !.op = q, !.node = i,
                                                  !.ret = Len(nodes) + 1]
                   ELSE /\ nodes' = nodes
                        /\ last' = [NoCall EXCEPT
                                        !.op = q, !.node = i,
                                        !.out = IF m \in {"isSymbolic", "result", "toVariable"}
                                                THEN "" ELSE r.s,
                                        !.err = IF m = "isSymbolic" THEN NoErr ELSE r.err]

\* an augmented assignment that appends the operand to the children of the
\* receiver
AugmentedOperatorInPlace ==
    \E i \in DOMAIN nodes, y \in DOMAIN nodes,
       op \in {"x+=y", "x-=y", "x*=y", "x/=y", "x//=y"} :
        /\ nodes[i].cls = "Operation"
        /\ nodes' = [nodes EXCEPT ![i].args = Append(@, y)]
        /\ last' = [NoCall EXCEPT !.op = op, !.node = i, !.ret = i,
                                  !.args = <<PyObj(i), PyObj(y)>>]

\* x += y, x -= y, x *= y, x /= y, x //= y, x an Operation and y a node:
\* the in-place method of Operation (Operation.__iadd__ = _add ..); the
\* result is what the name x is bound to
AugmentedOperator ==
    \E i \in DOMAIN nodes, y \in DOMAIN nodes,
       op \in {"x+=y", "x-=y", "x*=y", "x/=y", "x//=y"} :
        LET m == CASE op = "x+=y" -> "__iadd__"
                   [] op = "x-=y" -> "__isub__"
                   [] op = "x*=y" -> "__imul__"
                   [] op = "x/=y" -> "__idiv__"
                   [] op = "x//=y" -> "__ifloordiv__"
            c == Auxiliary(Bindings[nodes[i].cls][m], PyObj(i), PyObj(y), Len(nodes))
        IN  /\ nodes[i].cls = "Operation"
            /\ ~Raised(c)
            /\ Len(nodes) + Len(c.made) < MaxTree
            /\ nodes' = nodes \o c.made \o c.obj
            /\ last' = [NoCall EXCEPT !.op = op, !.node = i,
                                      !.args = <<PyObj(i), PyObj(y)>>,
                                      !.ret = Len(nodes) + Len(c.made) + 1]

SpecQuery == InitTree /\ [][TreeSum \/ TreeExpression \/ Query \/ AugmentedOperator]_vars

\* C29: strSymbolic(), strSubstituted(), strResult(), strResultWithUnit(),
\* result(), float(), str(), isSymbolic(), toLaTeXVariable() and
\* toVariable() leave every node that exists as it was, whether they return
\* or raise (toVariable adds the Variable it returns); x += y, x -= y,
\* x *= y, x /= y and x //= y leave every node that exists as it was, the
\* receiver included, and produce a new Operation of the kind +, -, *, /, //
\* over the receiver and the operand.
C29_ReadOnly ==
    [][/\ last'.op \in {"strSymbolic", "strSubstituted", "strResult", "strResultWithUnit",
                        "result", "float", "str", "isSymbolic", "toLaTeXVariable"}
          => nodes' = nodes
       /\ last'.op = "toVariable"
          => /\ SubSeq(nodes', 1, Len(nodes)) = nodes
             /\ Len(nodes') > Len(nodes) => /\ last'.ret = Len(nodes')
                                            /\ nodes'[last'.ret].cls = "Variable"
       /\ last'.op \in {"x+=y", "x-=y", "x*=y", "x/=y", "x//=y"}
          => /\ SubSeq(nodes', 1, Len(nodes)) = nodes
             /\ last'.ret = Len(nodes) + 1 /\ Len(nodes') = Len(nodes) + 1
             /\ nodes'[last'.ret].cls = "Operation"
             /\ nodes'[last'.ret].type =
                    (CASE last'.op = "x+=y" -> "+" [] last'.op = "x-=y" -> "-"
                       [] last'.op = "x*=y" -> "*" [] last'.op = "x/=y" -> "/"
                       [] last'.op = "x//=y" -> "//")
             /\ nodes'[last'.ret].args = <<last'.node, last'.args[2].v>>]_vars

\* o = z + v; o -= o has been executed: a new subtraction over the sum, and
\* the sum as it was
C29_Witness ==
    /\ last.op = "x-=y"
    /\ nodes[last.node].cls = "Operation"
    /\ nodes[last.node].type = "+"
    /\ nodes[last.node].args = <<1, 2>>
    /\ last.ret # last.node
    /\ nodes[last.ret].type = "-"
    /\ nodes[last.ret].args = <<last.node, last.node>>


\* C30: a symbolic node renders no number for itself. For a symbolic
\* Variable strSubstituted() and strResult() are strSymbolic(), the name in
\* braces; for a symbolic Operation strResult() is its strSymbolic(),
\* whatever the arguments; for a symbolic Expression strSubstituted() and
\* strResult() are strSubstituted() of its child; an Operation over a
\* symbolic Expression has the substituted rendering it has over the child
\* of that Expression.
C30_SymbolicRendering ==
    /\ \A i \in DOMAIN nodes :
         LET obj == nodes[i]
         IN  isSymbolic(obj) =>
               CASE obj.cls = "Variable" ->
                        /\ strSymbolic(obj) = RetStr("{" \o obj.name \o "}")
                        /\ strSubstituted(obj) = strSymbolic(obj)
                        /\ \A format \in {"", "%d"}, exponent \in {0, 2} :
                               strResult(obj, format, exponent) = strSymbolic(obj)
                 [] obj.cls = "Operation" ->
                        \A format \in {"", "%d"}, exponent \in {0, 2} :
                            strResult(obj, format, exponent) = strSymbolic(obj)
                 [] obj.cls = "Expression" ->
                        /\ strSubstituted(obj) = strSubstituted(nodes[obj.operation])
                        /\ \A format \in {"", "%d"}, exponent \in {0, 2} :
                               strResult(obj, format, exponent)
                                   = strSubstituted(nodes[obj.operation])
                        /\ (nodes[obj.operation].cls = "Operation"
                            /\ nodes[obj.operation].type = "+"
                            /\ nodes[obj.operation].args = <<3, 2>>)
                           => strSubstituted(obj) = RetStr("{u} + 2.34")
    /\ \A parent \in Constructible :
         \A k \in DOMAIN parent.args :
           LET e == nodes[parent.args[k]]
           IN  (e.cls = "Expression" /\ isSymbolic(e))
               => strSubstituted(parent)
                      = strSubstituted([parent EXCEPT !.args[k] = e.operation])

\* E_1 over u + v is symbolic and renders as the sum; so does the negation
\* of E_1, without brackets around the sum
C30_Witness ==
    \E i \in DOMAIN nodes :
        /\ nodes[i].cls = "Expression"
        /\ nodes[nodes[i].operation].cls = "Operation"
        /\ nodes[nodes[i].operation].type = "+"
        /\ nodes[nodes[i].operation].args = <<3, 2>>
        /\ isSymbolic(nodes[i])
        /\ strResult(nodes[i], "", 0) = RetStr("{u} + 2.34")
        /\ strSubstituted(Operation("neg", <<PyObj(i)>>, Len(nodes)).obj[1])
               = RetStr("\\left( - {u} + 2.34 \\right)")

=============================================================================
